---- MODULE Spec2Model ----
(***************************************************************************)
(* Model of the dbt-academy python helpers:                                *)
(*   src/python/src/log_manager.py         log                             *)
(*   src/python/src/connection_manager.py  ConnectionManager               *)
(*   src/python/src/secret_manager.py      dbtSecretManager.render_jinja   *)
(*   src/python/src/dbt_manager.py         dbtSource, dbtManager           *)
(*   src/python/src/project_manager.py     ProjectManager.run_subprocess   *)
(*   src/python/generate_sources.py        the metadata-generation script  *)
(*                                                                         *)
(* The specifications share the variables:                                 *)
(*   SpecNorm    one call of standardize_connection_details on a dict      *)
(*               drawn from a bounded set;                                 *)
(*   SpecSecret  a script that logs, renders a templated profile entry     *)
(*               (parse_dbt_target) and standardizes the result;           *)
(*   Spec        a caller driving one ConnectionManager through its        *)
(*               methods;                                                  *)
(*   SpecGen     refresh_source called again and again with metadata       *)
(*               tables drawn from a bounded set;                          *)
(*   SpecProc    run_subprocess and its child, which run side by side      *)
(*               and meet at the child's two pipes; SpecProcLive adds      *)
(*               the fairness of the scheduler;                            *)
(*   SpecDbt     get_dbt_manager on a project home drawn from a bounded    *)
(*               set, then parse calls on the dbt manager;                 *)
(*   SpecConn    one call of build_connection_string;                      *)
(*   SpecHooks   set_run_hooks called with hook lists;                     *)
(*   SpecScript  the tail of generate_sources.py, run once.                *)
(* Every call leaves its result in `outcome` (returned value or raised     *)
(* exception) and the log entries and session operations it performed, in  *)
(* order, in `events`.                                                     *)
(***************************************************************************)
EXTENDS Integers, Sequences, FiniteSets, TLC

VARIABLES
    target_profile,         \* dbt_manager.target_profile: the profile entry, values may be templates
    connection_details,     \* the dict handed to standardize_connection_details
    current_session,        \* id of self.current_session, 0 when the attribute is absent
    sessions,               \* every Session object created so far: id -> "open" | "closed"
    session_query_history,  \* self.session_query_history
    all_query_history,      \* self.all_query_history
    executed,               \* every execution of a statement so far: [sid, query, ok, result]
    files,                  \* the directory models/sources: file name -> [exists, doc]
    sources,                \* dbt_manager.sources: source name -> the source's source_info
    disk,                   \* the project home: [project_yml, profiles_yml, dirs]
    metadata_manager,       \* dbtMetadataManager: the loaded project_yml_data and profiles_yml_data
    dbt,                    \* the dbtManager's own attributes: names and directories
    process,                \* the child of run_subprocess: what it still does, its two pipes
    pc,                     \* where run_subprocess stands: "idle" | "for" | "wait" | "read" | "done"
    should_run_hooks,       \* self.should_run_hooks
    pre_run_hooks,          \* self.pre_run_hooks: the hook statements joined into one string
    post_run_hooks,         \* self.post_run_hooks
    ctx,                    \* the caller's `with manager:` block: "outside" | "inside"
    call,                   \* the last call made: [fn, ...arguments]
    outcome,                \* its result: [kind |-> "return" | "raise", value |-> ...]
    events                  \* what it did, in order: log entries and session operations

vars == <<target_profile, connection_details, current_session, sessions, session_query_history,
          all_query_history, executed, should_run_hooks, pre_run_hooks, post_run_hooks,
          ctx, files, sources, disk, metadata_manager, dbt, process, pc, call, outcome,
          events>>

dbtVars == <<disk, metadata_manager, dbt>>

genVars == <<files, sources>>

procVars == <<process, pc>>

sessionVars == <<current_session, sessions, session_query_history,
                 all_query_history, executed, should_run_hooks, pre_run_hooks,
                 post_run_hooks, ctx>>

-----------------------------------------------------------------------------
(* Python strings: lower() and the substring test of `x in "text"`.        *)

UpperLetters == "ABCDEFGHIJKLMNOPQRSTUVWXYZ"
LowerLetters == "abcdefghijklmnopqrstuvwxyz"

CharAt(s, i) == SubSeq(s, i, i)

\* str.lower() on one character: the letter table, as a function.
LowerOf ==
    [c \in { CharAt(UpperLetters, i) : i \in 1..Len(UpperLetters) } |->
        CharAt(LowerLetters, CHOOSE i \in 1..Len(UpperLetters) : CharAt(UpperLetters, i) = c)]

LowerChar(c) == IF c \in DOMAIN LowerOf THEN LowerOf[c] ELSE c

RECURSIVE Lower(_)
Lower(s) ==
    IF Len(s) = 0 THEN s
    ELSE LowerChar(CharAt(s, 1)) \o Lower(SubSeq(s, 2, Len(s)))

\* Python's `x in text` for two strings: x occurs in text ("" occurs in every string).
IsSubstring(x, text) ==
    \E i \in 1..(Len(text) + 1) :
        /\ i + Len(x) - 1 <= Len(text)
        /\ SubSeq(text, i, i + Len(x) - 1) = x

-----------------------------------------------------------------------------
(* Python dicts, in insertion order: a sequence of [k, v] with distinct k. *)

Keys(d) == { d[i].k : i \in 1..Len(d) }

HasKey(d, key) == \E i \in 1..Len(d) : d[i].k = key

Get(d, key) == d[CHOOSE i \in 1..Len(d) : d[i].k = key].v

\* d.setdefault(key, value): an existing key keeps its value.
DictSetDefault(d, key, value) ==
    IF HasKey(d, key) THEN d ELSE Append(d, [k |-> key, v |-> value])

\* d[key] = value: an existing key keeps its place, a new key goes last.
DictSet(d, key, value) ==
    IF HasKey(d, key)
    THEN [i \in 1..Len(d) |-> IF d[i].k = key THEN [k |-> key, v |-> value] ELSE d[i]]
    ELSE Append(d, [k |-> key, v |-> value])

\* Two dicts equal as Python compares them (order is not compared).
DictEq(d, e) == Keys(d) = Keys(e) /\ \A key \in Keys(d) : Get(d, key) = Get(e, key)

-----------------------------------------------------------------------------
(* Evaluation helpers.                                                     *)

\* `x = value; F(x)`: the value is computed once and F works on the result.
Let(value, F(_)) == CHOOSE r \in { F(x) : x \in {value} } : TRUE

-----------------------------------------------------------------------------
(* log_manager.log *)

Levels == {"CRITICAL", "ERROR", "WARN", "INFO", "DEBUG"}

LogEntry(message, level) == [op |-> "log", level |-> level, message |-> message]

\* A log that raises for CRITICAL entries only.
LogRaisesCriticalOnly(level) == level = "CRITICAL"

\* critical = level in ["CRITICAL", "ERROR"]; if critical: raise Exception(message)
LogRaises(level) == level \in {"CRITICAL", "ERROR"}

IsLog(e) == e.op = "log"

LogsAt(evs, levels) == SelectSeq(evs, LAMBDA e : IsLog(e) /\ e.level \in levels)

Raise(message) == [kind |-> "raise", value |-> message]
Return(value) == [kind |-> "return", value |-> value]
NoOutcome == [kind |-> "none", value |-> ""]

-----------------------------------------------------------------------------
(* ConnectionManager.keyword_map, in definition order.  ("role") and       *)
(* ("token") are plain strings in the source, not one-element tuples.      *)

keyword_map == <<
    [key |-> "type",      is_tuple |-> TRUE,  alts |-> <<"type", "dbtype", "db_type">>],
    [key |-> "host",      is_tuple |-> TRUE,  alts |-> <<"host", "server", "hostname", "host_name", "url">>],
    [key |-> "port",      is_tuple |-> TRUE,  alts |-> <<"port", "portnum", "portnr", "portnumber">>],
    [key |-> "user",      is_tuple |-> TRUE,  alts |-> <<"user", "username", "user_name", "userid", "user_id">>],
    [key |-> "pass",      is_tuple |-> TRUE,  alts |-> <<"pass", "password", "pwd", "passwd">>],
    [key |-> "database",  is_tuple |-> TRUE,  alts |-> <<"database", "dbname", "db_name", "db", "database_name">>],
    [key |-> "schema",    is_tuple |-> TRUE,  alts |-> <<"schema", "schema_name">>],
    [key |-> "account",   is_tuple |-> TRUE,  alts |-> <<"account", "user_account", "acc">>],
    [key |-> "warehouse", is_tuple |-> TRUE,  alts |-> <<"warehouse", "wh">>],
    [key |-> "role",      is_tuple |-> FALSE, alts |-> "role"],
    [key |-> "token",     is_tuple |-> FALSE, alts |-> "token"] >>

\* keyword_map.keys()
CanonicalKeys == { keyword_map[j].key : j \in 1..Len(keyword_map) }

\* `x in alternative_key_set`: membership for a tuple, substring for a string.
PyIn(x, entry) ==
    IF entry.is_tuple
    THEN \E n \in 1..Len(entry.alts) : entry.alts[n] = x
    ELSE IsSubstring(x, entry.alts)

\* alternative_key_set[-1]: the last alternative in place of the first.
PyLast(entry) ==
    IF entry.is_tuple THEN entry.alts[Len(entry.alts)] ELSE CharAt(entry.alts, Len(entry.alts))

\* alternative_key_set[0]: first element of a tuple, first character of a string.
PyFirst(entry) ==
    IF entry.is_tuple THEN entry.alts[1] ELSE CharAt(entry.alts, 1)

-----------------------------------------------------------------------------
(* ConnectionManager.standardize_connection_details *)

\* Lines 326-341: the scan of keyword_map.values() for one key that is not a
\* canonical name; j is the position in the map.  A set that does not hold the
\* key adds it to extra_keys, the first set that holds it renames it and stops.
RECURSIVE ScanAlternatives(_, _, _, _, _)
ScanAlternatives(key, value, j, std, extra_keys) ==
    IF j > Len(keyword_map)
    THEN [std |-> std, extra_keys |-> extra_keys]
    ELSE IF PyIn(Lower(key), keyword_map[j])
         THEN [std |-> DictSet(std, PyFirst(keyword_map[j]), value),
               extra_keys |-> extra_keys \ {key}]
         ELSE ScanAlternatives(key, value, j + 1, std, extra_keys \cup {key})

ExtraKeyMessage(key) == [text |-> "Extra key: {} in connection details.", arg |-> key]

\* Lines 316-349: one iteration of `for key in connection_details.keys()`.
\* extra_keys is reset for every key, so it holds the key itself or nothing.
StandardizeKey(cd, i, loop) ==
    Let(loop, LAMBDA acc :
        IF Lower(cd[i].k) \in CanonicalKeys
        THEN [std |-> DictSet(acc.std, Lower(cd[i].k), cd[i].v), evs |-> acc.evs]
        ELSE Let(ScanAlternatives(cd[i].k, cd[i].v, 1, acc.std, {}), LAMBDA r :
                 IF cd[i].k \in r.extra_keys
                 THEN [std |-> DictSet(r.std, cd[i].k, Get(cd, cd[i].k)),
                       evs |-> Append(acc.evs, LogEntry(ExtraKeyMessage(cd[i].k), "INFO"))]
                 ELSE [std |-> r.std, evs |-> acc.evs]))

\* Lines 314-349: the whole renaming loop over the first n keys.
RECURSIVE StandardizeLoop(_, _)
StandardizeLoop(cd, n) ==
    IF n = 0 THEN [std |-> <<>>, evs |-> <<>>]
    ELSE StandardizeKey(cd, n, StandardizeLoop(cd, n - 1))

SnowflakeKeys == {"account", "user", "pass", "database", "warehouse"}
DefaultKeys == {"host", "user", "pass"}

\* Lines 355-364: the required keys; the type is read from the dict as passed in.
base_keys(cd) ==
    {"type"} \cup
    (IF HasKey(cd, "type") /\ Lower(Get(cd, "type")) = "snowflake"
     THEN SnowflakeKeys
     ELSE DefaultKeys)

MissingKeyMessage(key) ==
    [text |-> "Invalid config: Info for {} not found in connection details.", arg |-> key]
SummaryMessage == [text |-> "Invalid connection details provided. Expected keys: {}.", arg |-> ""]

RECURSIVE SetToSeq(_)
SetToSeq(S) ==
    IF S = {} THEN <<>>
    ELSE LET x == CHOOSE y \in S : TRUE IN <<x>> \o SetToSeq(S \ {x})

\* The orders in which `for key in base_keys` can meet the missing keys: a set
\* has no fixed iteration order, so any missing key can come first.
MissingOrders(missing) ==
    { <<first>> \o SetToSeq(missing \ {first}) : first \in missing }

\* A run of log calls: the entries emitted, up to and including the first that raises.
RECURSIVE LogAll(_)
LogAll(entries) ==
    IF entries = <<>> THEN <<>>
    ELSE IF LogRaises(Head(entries).level) THEN <<Head(entries)>>
         ELSE <<Head(entries)>> \o LogAll(Tail(entries))

\* The result of a run of log calls followed by `return value`.
AfterLogs(entries, value) ==
    IF \E n \in 1..Len(entries) : LogRaises(entries[n].level)
    THEN Raise(entries[CHOOSE n \in 1..Len(entries) :
                   /\ LogRaises(entries[n].level)
                   /\ \A m \in 1..(n - 1) : ~LogRaises(entries[m].level)].message)
    ELSE Return(value)

\* Lines 366-381: the error entries the validation asks log for, in order.
ValidationEntries(order) ==
    [n \in 1..Len(order) |-> LogEntry(MissingKeyMessage(order[n]), "ERROR")]
        \o <<LogEntry(SummaryMessage, "ERROR")>>

\* The result of the validation (lines 366-383) after the renaming loop left r.
Validate(cd, r) ==
    IF base_keys(cd) \subseteq Keys(r.std)
    THEN { [outcome |-> Return(r.std), events |-> r.evs] }
    ELSE { [outcome |-> AfterLogs(ValidationEntries(order), r.std),
            events |-> r.evs \o LogAll(ValidationEntries(order))] :
           order \in MissingOrders(base_keys(cd) \ Keys(r.std)) }

\* Lines 300-383: every result the call can have: [outcome, events].
standardize_connection_details(cd) ==
    Let(StandardizeLoop(cd, Len(cd)), LAMBDA r : Validate(cd, r))

-----------------------------------------------------------------------------
(* The dicts standardize_connection_details is called with.                *)
(* A dict is: an optional type entry, then any of the keys a type can      *)
(* require, and for four of those choices one more key (any alias, some    *)
(* other letter cases, some unknown names) put first or last.              *)

Entry(key, value) == [k |-> key, v |-> value]

TypeEntries ==
    { <<>>,
      <<Entry("type", "snowflake")>>,
      <<Entry("type", "Snowflake")>>,
      <<Entry("type", "mysql")>>,
      <<Entry("dbtype", "snowflake")>>,
      <<Entry("db_type", "mysql")>>,
      <<Entry("TYPE", "snowflake")>> }

RequirableKeys == <<"host", "user", "pass", "account", "database", "warehouse">>

\* The entries of RequirableKeys whose key is in S, in that order, each with value "v".
KeyEntries(S) ==
    LET picked == SelectSeq(RequirableKeys, LAMBDA key : key \in S)
    IN  [n \in 1..Len(picked) |-> Entry(picked[n], "v")]

RequirableSet == { RequirableKeys[n] : n \in 1..Len(RequirableKeys) }

AliasKeys ==
    UNION { IF keyword_map[j].is_tuple
            THEN { keyword_map[j].alts[n] : n \in 1..Len(keyword_map[j].alts) }
            ELSE { keyword_map[j].alts } : j \in 1..Len(keyword_map) }

OtherCaseKeys == {"Type", "DBTYPE", "HOST", "HostName", "User", "PWD", "Db_Name",
                  "ACC", "Wh", "Role", "TOKEN", "Schema"}

\* Names that are in no alias tuple; some occur inside the text "role" or "token".
UnknownKeys == {"ol", "ke", "EN", "sslmode", "ssl_certificate_path", "threads", ""}

ExtraValues == {"a", "b"}

ExtraEntries ==
    { Entry(key, value) : key \in AliasKeys \cup OtherCaseKeys \cup UnknownKeys,
                          value \in ExtraValues }

BaseInputs ==
    { t \o KeyEntries(S) : t \in TypeEntries, S \in SUBSET RequirableSet }

ExtendedBases ==
    { t \o KeyEntries(S) :
        t \in { <<>>, <<Entry("type", "snowflake")>>, <<Entry("type", "mysql")>>,
                <<Entry("dbtype", "snowflake")>> },
        S \in { {}, DefaultKeys, SnowflakeKeys, RequirableSet } }

ExtendedInputs ==
    { d \in UNION { { <<e>> \o b, b \o <<e>> } : b \in ExtendedBases, e \in ExtraEntries } :
        Cardinality(Keys(d)) = Len(d) }

\* Two aliases of "user" with different values, in both orders, in a dict
\* that has the other required keys.
AliasPairInputs ==
    { <<Entry("type", "mysql"), Entry("host", "v"), Entry(pair[1], "a"), Entry("pass", "v"),
        Entry(pair[2], "b")>> :
        pair \in { q \in {"username", "user_name", "userid"} \X {"username", "user_name", "userid"} :
                     q[1] # q[2] } }

Inputs == BaseInputs \cup ExtendedInputs \cup AliasPairInputs

-----------------------------------------------------------------------------
(* The sources directory of the dbt project.                               *)

\* The source names generation is asked for.
SourceNames == {"landing", "raw"}

\* Line 160: sources_filename = f"sources_{source_db}.yml"
SourcesFilename(source_db) == "sources_" \o source_db \o ".yml"

\* The f-string writes a source_db of None as the text None.
FileNames == { SourcesFilename(name) : name \in SourceNames \cup {"None"} }

NoFile == [exists |-> FALSE, doc |-> <<>>]
File(doc) == [exists |-> TRUE, doc |-> doc]

\* No sources file written, no `sources` attribute on the dbt manager.
ProjectIdle ==
    /\ files = [f \in FileNames |-> NoFile]
    /\ sources = <<>>

\* No child process.
NoProcess ==
    [status |-> "none", todo |-> <<>>, stdout |-> <<>>, stdout_open |-> FALSE, stderr |-> <<>>,
     returncode |-> "None"]

ProcessIdle ==
    /\ process = NoProcess
    /\ pc = "idle"

\* No dbt manager constructed.
NoMetadata == [loaded |-> FALSE, project_yml_data |-> <<>>, profiles_yml_data |-> <<>>]
NoDbt == [constructed |-> FALSE, project_name |-> "None", target_name |-> "None",
          target_found |-> FALSE, dirs |-> <<>>]
NoDisk == [project_yml |-> <<>>, profiles_yml |-> <<>>, dirs |-> {}]

DbtIdle ==
    /\ disk = NoDisk
    /\ metadata_manager = NoMetadata
    /\ dbt = NoDbt

-----------------------------------------------------------------------------
(* SpecNorm: one call of standardize_connection_details.                   *)

SessionIdle ==
    /\ current_session = 0
    /\ sessions = <<>>
    /\ session_query_history = <<>>
    /\ all_query_history = <<>>
    /\ executed = <<>>
    /\ should_run_hooks = FALSE
    /\ pre_run_hooks = ""
    /\ post_run_hooks = ""
    /\ ctx = "outside"

NoCall == [fn |-> "none"]

InitNorm ==
    /\ connection_details \in Inputs
    /\ target_profile = <<>>
    /\ ProjectIdle
    /\ ProcessIdle
    /\ DbtIdle
    /\ SessionIdle
    /\ call = NoCall
    /\ outcome = NoOutcome
    /\ events = <<>>

\* The call itself: one of its possible results becomes the state.
StandardizeCall ==
    /\ \E r \in standardize_connection_details(connection_details) :
        /\ outcome' = r.outcome
        /\ events' = r.events
    /\ call' = [fn |-> "standardize_connection_details"]
    /\ UNCHANGED <<dbtVars, procVars, genVars, target_profile, connection_details, sessionVars>>

Standardize == call = NoCall /\ StandardizeCall

NextNorm == Standardize

SpecNorm == InitNorm /\ [][NextNorm]_vars

-----------------------------------------------------------------------------
(* ConnectionManager: sessions, hooks and query execution.                 *)
(* A method is an operator on the record m of the manager's fields:        *)
(*   cur, sess, sqh, aqh, srh   current_session, every Session created,    *)
(*                              session_query_history, all_query_history,  *)
(*                              should_run_hooks                           *)
(*   evs    the log entries and Session operations of the call so far      *)
(*   fate   what the database will answer to the next executions           *)
(*          (TRUE: the statement succeeds, FALSE: it raises)               *)
(*   ret    the value the last finished method returned                    *)
(*   out    NoOutcome, or Raise(..) once an exception is propagating       *)

MaxSessions == 3
MaxHistory == 3
MaxBatch == 2

\* The statements a caller executes: a query, and a statement that returns no rows.
Queries == {"SELECT 1", "DELETE FROM t"}

\* result.fetchall() and result.keys() on line 223 need a result with rows: for
\* a statement that returns none (DML, SET, the empty hook string) SQLAlchemy
\* raises ResourceClosedError there.
ReturnsRows(query) ==
    \/ Len(query) >= 6 /\ SubSeq(query, 1, 6) = "SELECT"
    \/ Len(query) >= 5 /\ SubSeq(query, 1, 5) = "with "

ResourceClosedError ==
    [type |-> "exception", text |-> "This result object does not return rows."]

Running(m) == m.out.kind # "raise"

\* One statement after another: F runs on the fields the statements before it
\* left, unless one of them raised.
Then(m, F(_)) == Let(m, LAMBDA x : IF Running(x) THEN F(x) ELSE x)

Emit(m, e) == [m EXCEPT !.evs = Append(@, e)]

CreateEv(sid) == [op |-> "create", sid |-> sid]
ExecEv(sid, query, ok) == [op |-> "execute", sid |-> sid, query |-> query, ok |-> ok]
CommitEv(sid) == [op |-> "commit", sid |-> sid]
RollbackEv(sid) == [op |-> "rollback", sid |-> sid]
CloseEv(sid) == [op |-> "close", sid |-> sid]
PrintEv(query) == [op |-> "pretty_print", query |-> query]

\* log(message, level) called inside a method: the entry is emitted, then
\* a critical level raises Exception(message).
Log(m, message, level) ==
    [Emit(m, LogEntry(message, level)) EXCEPT
        !.out = IF LogRaises(level) THEN Raise(message) ELSE @]

Msg(text, arg) == [text |-> text, arg |-> arg]

\* The exception the database driver raises for a failing statement, and str(e).
DbError(query) == [type |-> "exception", text |-> "db error"]
Str(e) == e.text

DataFrame(query) == [type |-> "DataFrame", of |-> query]

AttributeError ==
    [type |-> "AttributeError",
     text |-> "'Session' object has no attribute 'execute_query'"]

\* A failure that is logged as a warning whatever continue_on_error is.
ErrorLevelWarn(continue_on_error) == "WARN"

\* Line 229: level="ERROR" if not continue_on_error else "WARN"
ErrorLevel(continue_on_error) == IF ~continue_on_error THEN "ERROR" ELSE "WARN"

\* A close that does not extend all_query_history.
CloseAndDrop(m) ==
    Then(Log([Emit(m, CloseEv(m.cur)) EXCEPT !.sess[m.cur] = "closed", !.cur = 0],
             Msg("Closed and removed current database session.", ""), "INFO"),
         LAMBDA x : [x EXCEPT !.ret = "None"])

\* Lines 275-278: close the session, drop the attribute, log, flush the history.
CloseAndFlush(m) ==
    Then(Log([Emit(m, CloseEv(m.cur)) EXCEPT !.sess[m.cur] = "closed", !.cur = 0],
             Msg("Closed and removed current database session.", ""), "INFO"),
         LAMBDA x : [x EXCEPT !.aqh = @ \o x.sqh, !.ret = "None"])

\* A close that flushes the history also when no session is open.
close_current_session_reflushing(fields) ==
    Let(fields, LAMBDA m :
        IF m.cur = 0 THEN [m EXCEPT !.aqh = @ \o m.sqh, !.ret = "None"]
        ELSE IF m.srh THEN [m EXCEPT !.out = Raise(AttributeError)]
        ELSE CloseAndFlush(m))

\* Lines 267-278.  With should_run_hooks set, line 273 calls execute_query on
\* the Session object, which has no such method: AttributeError, before the
\* session is closed.
close_current_session(fields) ==
    Let(fields, LAMBDA m :
        IF m.cur = 0 THEN [m EXCEPT !.ret = "None"]
        ELSE IF m.srh THEN [m EXCEPT !.out = Raise(AttributeError)]
        ELSE CloseAndFlush(m))

\* An except branch that leaves the failed transaction as it is.
ExceptBranchNoRollback(m, query, continue_on_error, e) ==
    Then(Log(Emit(m, PrintEv(query)),
             Msg("Error executing query: {}", Str(e)), ErrorLevel(continue_on_error)),
         LAMBDA x : [x EXCEPT !.ret = IF continue_on_error THEN Str(e) ELSE e])

\* Lines 224-231: the except branch of execute_query, for the exception e.
ExceptBranch(m, query, continue_on_error, e) ==
    Then(Log(Emit(Emit(m, PrintEv(query)), RollbackEv(m.cur)),
             Msg("Error executing query: {}", Str(e)), ErrorLevel(continue_on_error)),
         LAMBDA x : [x EXCEPT !.ret = IF continue_on_error THEN Str(e) ELSE e])

\* Lines 219-223: the try block after a successful execute: commit, log, append.
\* An exception raised in the block (by log) is handled by the except branch.
CommitAndRecord(m, query, continue_on_error) ==
    Let(Log(Emit(m, CommitEv(m.cur)), Msg("Executed query: {}", query), "DEBUG"),
        LAMBDA x :
            IF Running(x)
            THEN IF ReturnsRows(query)
                 THEN [x EXCEPT !.sqh = Append(@, query), !.ret = DataFrame(query)]
                 ELSE ExceptBranch([x EXCEPT !.sqh = Append(@, query)], query,
                                   continue_on_error, ResourceClosedError)
            ELSE ExceptBranch([x EXCEPT !.out = NoOutcome], query, continue_on_error,
                              [type |-> "exception", text |-> x.out.value.text]))

\* Lines 218-231: the try statement of execute_query, on the current session.
TryExecute(fields, query, continue_on_error) ==
    Let(fields, LAMBDA m :
        Let([Emit(m, ExecEv(m.cur, query, Head(m.fate))) EXCEPT !.fate = Tail(@)],
            LAMBDA x :
                IF Head(m.fate)
                THEN CommitAndRecord(x, query, continue_on_error)
                ELSE ExceptBranch(x, query, continue_on_error, DbError(query))))

\* Lines 249-253: the hooks of a session that start_new_session has just
\* created.  Each is run by execute_query with continue_on_error left at its
\* default; its get_current_session (line 217) finds the new session.
RunHooks(m) ==
    Then(Then(Then(TryExecute(m, post_run_hooks, TRUE),
                   LAMBDA x : TryExecute(x, pre_run_hooks, TRUE)),
              LAMBDA y : Log(y, Msg("Executed pre-run hooks for new session.", ""), "INFO")),
         LAMBDA z : [z EXCEPT !.srh = TRUE])

\* Lines 247-254: the new session, its hooks, the log entry.
CreateSession(m) ==
    Then(Then(IF m.srh
              THEN RunHooks([Emit(m, CreateEv(Len(m.sess) + 1)) EXCEPT
                                !.sess = Append(@, "open"), !.cur = Len(m.sess) + 1,
                                !.sqh = <<>>])
              ELSE [Emit(m, CreateEv(Len(m.sess) + 1)) EXCEPT
                       !.sess = Append(@, "open"), !.cur = Len(m.sess) + 1,
                       !.sqh = <<>>],
              LAMBDA x : Log(x, Msg("Started a new database session.", ""), "INFO")),
         LAMBDA y : [y EXCEPT !.ret = "None"])

\* A start that replaces current_session without closing the one it held.
start_new_session_leaking(fields) ==
    Let(fields, LAMBDA m : CreateSession(m))

\* Lines 233-254.  The engine exists on every constructed manager (__init__
\* raises otherwise), so the first branch of line 243 is never taken.
start_new_session(fields) ==
    Let(fields, LAMBDA m :
        IF m.cur # 0
        THEN Then(close_current_session(m), LAMBDA x : CreateSession(x))
        ELSE CreateSession(m))

\* Lines 256-265.
get_current_session(fields) ==
    Let(fields, LAMBDA m :
        IF m.cur # 0 THEN [m EXCEPT !.ret = m.cur]
        ELSE Then(start_new_session(m), LAMBDA x : [x EXCEPT !.ret = x.cur]))

\* Lines 205-231.
execute_query(m, query, continue_on_error) ==
    Then(get_current_session(m), LAMBDA x : TryExecute(x, query, continue_on_error))

\* Lines 293-296: the loop of batch_execute_queries over queries[n..], filling results.
RECURSIVE BatchLoop(_, _, _, _, _)
BatchLoop(fields, queries, n, continue_on_error, results) ==
    Let(fields, LAMBDA m :
        IF n > Len(queries) THEN [m EXCEPT !.ret = results]
        ELSE Then(execute_query(m, queries[n], continue_on_error),
                  LAMBDA x : BatchLoop(x, queries, n + 1, continue_on_error,
                                       DictSet(results, queries[n], x.ret))))

\* Lines 280-298.
batch_execute_queries(m, queries, continue_on_error) ==
    Then(Then(start_new_session(m),
              LAMBDA x : BatchLoop(x, queries, 1, continue_on_error, <<>>)),
         LAMBDA y : Then(close_current_session(y), LAMBDA z : [z EXCEPT !.ret = y.ret]))

\* Lines 123-132.
enter(m) ==
    Then(Then(Log(m, Msg("Starting new session with connection manager...", ""), "INFO"),
              LAMBDA x : start_new_session(x)),
         LAMBDA y : [y EXCEPT !.ret = "self"])

\* Lines 134-140.
exit(m) ==
    Then(Then(Log(m, Msg("Closing session and exiting connection manager.", ""), "INFO"),
              LAMBDA x : close_current_session(x)),
         LAMBDA y : [y EXCEPT !.ret = FALSE])

\* str.strip() of trailing and leading blanks, and str.endswith(";").
RECURSIVE Strip(_)
Strip(s) ==
    IF Len(s) = 0 THEN s
    ELSE IF CharAt(s, 1) = " " THEN Strip(SubSeq(s, 2, Len(s)))
    ELSE IF CharAt(s, Len(s)) = " " THEN Strip(SubSeq(s, 1, Len(s) - 1))
    ELSE s

EndsWithSemicolon(s) == Len(s) > 0 /\ CharAt(s, Len(s)) = ";"

\* " ".join(parts)
RECURSIVE Join(_)
Join(parts) ==
    IF Len(parts) = 0 THEN ""
    ELSE IF Len(parts) = 1 THEN parts[1]
    ELSE parts[1] \o " " \o Join(Tail(parts))

\* Lines 115-120: " ".join(f"{hook};" for hook in hooks if not hook.strip().endswith(";"))
JoinHooks(hooks) ==
    LET kept == SelectSeq(hooks, LAMBDA hook : ~EndsWithSemicolon(Strip(hook)))
    IN  Join([n \in 1..Len(kept) |-> kept[n] \o ";"])

-----------------------------------------------------------------------------
(* SpecHooks: set_run_hooks called on a manager, any number of times.      *)

MaxHooks == 2

HookStatements == {"SET a = 1", "SET a = 1;", " SET c = 3", "SET b = 2; "}

HookLists == UNION { [1..n -> HookStatements] : n \in 0..MaxHooks }

InitHooks ==
    /\ target_profile = <<>>
    /\ connection_details = <<>>
    /\ ProjectIdle
    /\ ProcessIdle
    /\ DbtIdle
    /\ SessionIdle
    /\ call = NoCall
    /\ outcome = NoOutcome
    /\ events = <<>>

\* Lines 102-121: manager.set_run_hooks(pre_run_hooks=pre, post_run_hooks=post)
SetRunHooks ==
    \E pre \in HookLists, post \in HookLists :
        /\ call' = [fn |-> "set_run_hooks", pre_run_hooks |-> pre, post_run_hooks |-> post]
        /\ pre_run_hooks' = JoinHooks(pre)
        /\ post_run_hooks' = JoinHooks(post)
        /\ should_run_hooks' = (JoinHooks(pre) # "" \/ JoinHooks(post) # "")
        /\ outcome' = Return("None")
        /\ UNCHANGED <<dbtVars, procVars, genVars, target_profile, connection_details,
                       current_session, sessions, session_query_history, all_query_history,
                       executed, ctx, events>>

NextHooks == SetRunHooks

SpecHooks == InitHooks /\ [][NextHooks]_vars

-----------------------------------------------------------------------------
(* Spec: a caller driving one ConnectionManager.                           *)

\* The hook lists a manager is constructed with.
PreHookLists == { <<>>, <<"SET a = 1">>, <<"SET a = 1;">> }
PostHookLists == { <<>>, <<"SET b = 2">> }

ValidDetails ==
    <<Entry("type", "mysql"), Entry("host", "v"), Entry("user", "v"),
      Entry("pass", "v"), Entry("port", "v")>>

\* Lines 82-100: __init__ (set_run_hooks, get_new_engine, all_query_history = []).
Init ==
    /\ connection_details = ValidDetails
    /\ target_profile = <<>>
    /\ ProjectIdle
    /\ ProcessIdle
    /\ DbtIdle
    /\ \E pre \in PreHookLists, post \in PostHookLists :
        /\ pre_run_hooks = JoinHooks(pre)
        /\ post_run_hooks = JoinHooks(post)
        /\ should_run_hooks = (JoinHooks(pre) # "" \/ JoinHooks(post) # "")
    /\ current_session = 0
    /\ sessions = <<>>
    /\ session_query_history = <<>>
    /\ all_query_history = <<>>
    /\ executed = <<>>
    /\ ctx = "outside"
    /\ call = NoCall
    /\ outcome = NoOutcome
    /\ events = <<>>

\* What the database answers to the (at most n) executions of one call:
\* TRUE for a statement it runs, FALSE for one it rejects.
Fates(n) == [1..n -> BOOLEAN]

\* The manager's fields at the start of a call.
Fields(fate) ==
    [cur |-> current_session, sess |-> sessions, sqh |-> session_query_history,
     aqh |-> all_query_history, srh |-> should_run_hooks,
     evs |-> <<>>, fate |-> fate, ret |-> "None", out |-> NoOutcome]

\* The execution at position n of evs ended in the except branch of its
\* execute_query: a rollback follows it before the next execution.
EndedInExcept(evs, n) ==
    \E r \in (n + 1)..Len(evs) :
        /\ evs[r].op = "rollback"
        /\ \A k \in (n + 1)..(r - 1) : evs[k].op # "execute"

\* The executions among the events of a call, in order, each with the session,
\* the statement, the database's answer and what execute_query made of it.
Executions(evs) ==
    Let(SelectSeq([n \in 1..Len(evs) |-> n], LAMBDA n : evs[n].op = "execute"),
        LAMBDA at :
            [i \in 1..Len(at) |->
                [sid |-> evs[at[i]].sid, query |-> evs[at[i]].query, ok |-> evs[at[i]].ok,
                 result |-> IF EndedInExcept(evs, at[i]) THEN "error" ELSE "DataFrame"]])

\* The call is over: its fields, result and events become the state.
Finish(m) ==
    /\ current_session' = m.cur
    /\ sessions' = m.sess
    /\ session_query_history' = m.sqh
    /\ all_query_history' = m.aqh
    /\ executed' = executed \o Executions(m.evs)
    /\ should_run_hooks' = m.srh
    /\ events' = m.evs
    /\ outcome' = IF Running(m) THEN Return(m.ret) ELSE m.out
    /\ UNCHANGED <<dbtVars, procVars, genVars, target_profile, connection_details, pre_run_hooks, post_run_hooks>>

\* The bounds: a call that may create a session needs room for one, a call
\* that executes n statements needs room for them in the record of executions
\* (which the histories are part of).
RoomForSession == Len(sessions) < MaxSessions
RoomFor(n) == Len(executed) + n <= MaxHistory

HookRoom == IF should_run_hooks THEN 2 ELSE 0

ExecuteQuery ==
    \E query \in Queries, continue_on_error \in BOOLEAN :
        /\ RoomForSession
        /\ RoomFor(1 + HookRoom)
        /\ call' = [fn |-> "execute_query", query |-> query,
                    continue_on_error |-> continue_on_error]
        /\ \E m \in { execute_query(Fields(fate), query, continue_on_error) :
                        fate \in Fates(1 + HookRoom) } : Finish(m)
        /\ UNCHANGED ctx

BatchLists == UNION { [1..n -> Queries] : n \in 0..MaxBatch }

BatchExecuteQueries ==
    \E queries \in BatchLists, continue_on_error \in BOOLEAN :
        /\ RoomForSession
        /\ RoomFor(Len(queries) + HookRoom)
        /\ call' = [fn |-> "batch_execute_queries", queries |-> queries,
                    continue_on_error |-> continue_on_error]
        /\ \E m \in { batch_execute_queries(Fields(fate), queries, continue_on_error) :
                        fate \in Fates(Len(queries) + HookRoom) } : Finish(m)
        /\ UNCHANGED ctx

StartNewSession ==
    /\ RoomForSession
    /\ RoomFor(HookRoom)
    /\ call' = [fn |-> "start_new_session"]
    /\ \E m \in { start_new_session(Fields(fate)) : fate \in Fates(HookRoom) } : Finish(m)
    /\ UNCHANGED ctx

GetCurrentSession ==
    /\ RoomForSession
    /\ RoomFor(HookRoom)
    /\ call' = [fn |-> "get_current_session"]
    /\ \E m \in { get_current_session(Fields(fate)) : fate \in Fates(HookRoom) } : Finish(m)
    /\ UNCHANGED ctx

CloseCurrentSession ==
    /\ call' = [fn |-> "close_current_session"]
    /\ \E m \in { close_current_session(Fields(<<>>)) } : Finish(m)
    /\ UNCHANGED ctx

\* `with manager:` is entered; the block is entered only if __enter__ returns.
Enter ==
    /\ ctx = "outside"
    /\ RoomForSession
    /\ RoomFor(HookRoom)
    /\ call' = [fn |-> "__enter__"]
    /\ \E m \in { enter(Fields(fate)) : fate \in Fates(HookRoom) } :
          /\ Finish(m)
          /\ ctx' = IF Running(m) THEN "inside" ELSE "outside"

\* The block is left, normally or (exc) by an exception raised in it.
Exit ==
    \E exc \in BOOLEAN :
        /\ ctx = "inside"
        /\ call' = [fn |-> "__exit__", exc |-> exc]
        /\ \E m \in { exit(Fields(<<>>)) } : Finish(m)
        /\ ctx' = "outside"

Next ==
    \/ ExecuteQuery
    \/ BatchExecuteQueries
    \/ StartNewSession
    \/ GetCurrentSession
    \/ CloseCurrentSession
    \/ Enter
    \/ Exit

Spec == Init /\ [][Next]_vars

-----------------------------------------------------------------------------
(* dbtSecretManager: rendering the templated values of a profile entry.    *)

\* What jinja2 makes of the texts a profile value can hold: a plain value, a
\* reference to an environment variable through env_var (lines 220-223), a
\* template with a syntax error, and a call of a name the environment lacks.
Templates == <<
    [text |-> "v",                          result |-> "ok", rendered |-> "v"],
    [text |-> "{{ env_var('DBT_SECRET') }}", result |-> "ok", rendered |-> "s3cret"],
    [text |-> "{{ env_var('DBT_SECRET' }}",  result |-> "TemplateSyntaxError", rendered |-> ""],
    [text |-> "{{ secret('DBT_SECRET') }}",  result |-> "UndefinedError", rendered |-> ""] >>

TemplateTexts == { Templates[n].text : n \in 1..Len(Templates) }

\* self.jinja_env.from_string(text).render(**params)
JinjaRender(text) == Templates[CHOOSE n \in 1..Len(Templates) : Templates[n].text = text]

\* The fields of a call that touches no manager: its events, result, exception.
Blank == [evs |-> <<>>, ret |-> "None", out |-> NoOutcome]

\* A try statement without the finally clause: the exception of log leaves it.
RenderStringRaising(m, jinja_input) ==
    Let(JinjaRender(jinja_input), LAMBDA r :
        IF r.result = "ok" THEN [m EXCEPT !.ret = r.rendered]
        ELSE Log(m, Msg("Error in Jinja template: {}", r.result), "ERROR"))

\* Lines 263-270: the try statement of render_jinja for a string input.  The
\* except clauses log at ERROR level, which raises; `finally: return jinja_input`
\* then discards the exception and returns the input, still unrendered.
RenderString(m, jinja_input) ==
    Let(JinjaRender(jinja_input), LAMBDA r :
        Let(IF r.result = "ok" THEN m
            ELSE IF r.result = "TemplateSyntaxError"
                 THEN Log(m, Msg("Error in Jinja template: {}", r.result), "ERROR")
                 ELSE Log(m, Msg("Unknown error parsing Jinja template: {}", r.result), "ERROR"),
            LAMBDA x : [x EXCEPT !.out = NoOutcome,
                                 !.ret = IF r.result = "ok" THEN r.rendered ELSE jinja_input]))

\* Lines 247-270.  is_str: isinstance(jinja_input, str).
render_jinja(m, jinja_input, is_str) ==
    IF ~is_str THEN [m EXCEPT !.ret = jinja_input] ELSE RenderString(m, jinja_input)

\* Line 245: {key: self.render_jinja(value) for key, value in target.items()},
\* over the first n items; ret is the dict built so far.
RECURSIVE ParseLoop(_, _)
ParseLoop(target, n) ==
    IF n = 0 THEN [Blank EXCEPT !.ret = <<>>]
    ELSE Then(ParseLoop(target, n - 1), LAMBDA built :
             Then(render_jinja(built, target[n].v, TRUE), LAMBDA x :
                 [x EXCEPT !.ret = DictSet(built.ret, target[n].k, x.ret)]))

\* Lines 226-245.
parse_dbt_target(target) == ParseLoop(target, Len(target))

-----------------------------------------------------------------------------
(* SpecSecret: the start of generate_sources.py: a log entry, the profile  *)
(* entry rendered, the connection details standardized.  A raised          *)
(* exception ends the script.                                              *)

ProfileKeys == <<"type", "host", "user", "pass">>

\* The profile entries: each key with one of the template texts.
Targets ==
    { [n \in 1..Len(ProfileKeys) |-> Entry(ProfileKeys[n], texts[n])] :
        texts \in [1..Len(ProfileKeys) -> TemplateTexts] }

InitSecret ==
    /\ target_profile \in Targets
    /\ connection_details = <<>>
    /\ ProjectIdle
    /\ ProcessIdle
    /\ DbtIdle
    /\ SessionIdle
    /\ call = NoCall
    /\ outcome = NoOutcome
    /\ events = <<>>

ScriptRunning == outcome.kind # "raise"

\* log(message, level) called by a script itself (dbt_wrapper.py line 13, there
\* with the default level).
ScriptLog ==
    \E level \in Levels :
        /\ call = NoCall
        /\ call' = [fn |-> "log", level |-> level]
        /\ \E m \in { Log(Blank, Msg("Setting up dbt wrapper...", ""), level) } :
              /\ events' = m.evs
              /\ outcome' = IF Running(m) THEN Return(m.ret) ELSE m.out
        /\ UNCHANGED <<dbtVars, procVars, genVars, target_profile, connection_details, sessionVars>>

\* connection_details = secret_manager.parse_dbt_target(dbt_manager.target_profile)
ParseDbtTarget ==
    /\ call.fn \in {"none", "log"}
    /\ ScriptRunning
    /\ call' = [fn |-> "parse_dbt_target"]
    /\ \E m \in { parse_dbt_target(target_profile) } :
          /\ events' = m.evs
          /\ outcome' = IF Running(m) THEN Return(m.ret) ELSE m.out
          /\ connection_details' = IF Running(m) THEN m.ret ELSE connection_details
    /\ UNCHANGED <<dbtVars, procVars, genVars, target_profile, sessionVars>>

\* The values render_jinja is called with: the template texts, and values
\* that are no strings (a port number, a flag, None), written as their repr.
NonStrings == {"3306", "True", "None"}

RenderInputs ==
    { [is_str |-> TRUE, text |-> t] : t \in TemplateTexts }
        \cup { [is_str |-> FALSE, text |-> t] : t \in NonStrings }

\* secret_manager.render_jinja(jinja_input) called on one value.
RenderJinja ==
    \E input \in RenderInputs :
        /\ call.fn \in {"none", "log"}
        /\ ScriptRunning
        /\ call' = [fn |-> "render_jinja", input |-> input]
        /\ \E m \in { render_jinja(Blank, input.text, input.is_str) } :
              /\ events' = m.evs
              /\ outcome' = IF Running(m) THEN Return(m.ret) ELSE m.out
        /\ UNCHANGED <<dbtVars, procVars, genVars, target_profile, connection_details, sessionVars>>

\* project.get_connection_manager(connection_details): the constructor
\* standardizes the details (line 180).
StandardizeParsed ==
    /\ call.fn = "parse_dbt_target"
    /\ ScriptRunning
    /\ StandardizeCall

NextSecret == ScriptLog \/ ParseDbtTarget \/ RenderJinja \/ StandardizeParsed

SpecSecret == InitSecret /\ [][NextSecret]_vars

-----------------------------------------------------------------------------
(* dbtSource and dbtManager.refresh_source: the sources file generator.    *)

\* A pandas DataFrame: the column names and the rows, each row a tuple of
\* cell values in column order.  Cells of the name columns are strings; cells
\* of the flag columns are written as Python writes them ("1", "0", "True",
\* "nan"), None is "None".
DataFrameOf(columns, rows) == [type |-> "DataFrame", columns |-> columns, rows |-> rows]

\* What execute_query returns for a failed query under continue-on-error.
ErrorText == [type |-> "str", columns |-> <<>>, rows |-> <<>>]

REQUIRED_TABLE_FIELDS == {"schema_name", "table_name", "column_name"}

ColumnsOf(source_info) == { source_info.columns[j] : j \in 1..Len(source_info.columns) }

\* A validation that is content with one of the required columns.
validate_any_field(source_info) == REQUIRED_TABLE_FIELDS \cap ColumnsOf(source_info) # {}

\* Line 151: self.REQUIRED_TABLE_FIELDS.issubset(source_info.columns)
validate_source_info(source_info) == REQUIRED_TABLE_FIELDS \subseteq ColumnsOf(source_info)

\* Line 175: source_info.to_dict(orient="records")[i - 1], a dict with every column.
RowDict(source_info, i) ==
    [j \in 1..Len(source_info.columns) |->
        Entry(source_info.columns[j], source_info.rows[i][j])]

\* row.get(key)
RowGet(row, key) == IF HasKey(row, key) THEN Get(row, key) ELSE "None"

\* value == 1 as Python evaluates it: true for 1, True and 1.0.
PyEqualsOne(value) == value \in {"1", "True", "1.0"}

\* len(row.get(key)) raises TypeError for a cell that holds None.
LenRaises(row) ==
    \E key \in {"column_description", "data_type", "meta"} :
        HasKey(row, key) /\ Get(row, key) = "None"

\* Lines 177-187: the optional entries of a column descriptor.
OptionalInfo(row) ==
    (IF HasKey(row, "column_description") /\ Len(Get(row, "column_description")) > 0
     THEN <<Entry("description", Get(row, "column_description"))>> ELSE <<>>)
    \o (IF HasKey(row, "data_type") /\ Len(Get(row, "data_type")) > 0
        THEN <<Entry("data_type", Get(row, "data_type"))>> ELSE <<>>)
    \o (IF HasKey(row, "meta") /\ Len(Get(row, "meta")) > 0
        THEN <<Entry("meta", <<Entry("contains_pii", RowGet(row, "column_contains_pii"))>>)>>
        ELSE <<>>)

\* A descriptor whose tests are attached for a flag that is 0.
TestsInfoInverted(row) ==
    IF RowGet(row, "is_nullable") = "0" \/ RowGet(row, "is_unique") = "0"
    THEN <<Entry("tests",
                 (IF RowGet(row, "is_nullable") = "0" THEN <<"not_null">> ELSE <<>>)
                 \o (IF RowGet(row, "is_unique") = "0" THEN <<"unique">> ELSE <<>>))>>
    ELSE <<>>

\* Lines 188-193: the tests of a column descriptor.
TestsInfo(row) ==
    IF PyEqualsOne(RowGet(row, "is_nullable")) \/ PyEqualsOne(RowGet(row, "is_unique"))
    THEN <<Entry("tests",
                 (IF PyEqualsOne(RowGet(row, "is_nullable")) THEN <<"not_null">> ELSE <<>>)
                 \o (IF PyEqualsOne(RowGet(row, "is_unique")) THEN <<"unique">> ELSE <<>>))>>
    ELSE <<>>

\* Lines 176-193: current_col_info for one row.
ColumnInfo(row) ==
    <<Entry("name", RowGet(row, "column_name"))>> \o OptionalInfo(row) \o TestsInfo(row)

\* A grouping that puts a descriptor in front of its table's list.
GroupRowFirst(info, row) ==
    Let(RowGet(row, "table_name"), LAMBDA table_name :
        IF HasKey(info, table_name)
        THEN DictSet(info, table_name, <<ColumnInfo(row)>> \o Get(info, table_name))
        ELSE DictSet(info, table_name, <<ColumnInfo(row)>>))

\* Lines 195-198: the descriptor goes to the list of its table.
GroupRow(info, row) ==
    Let(RowGet(row, "table_name"), LAMBDA table_name :
        IF HasKey(info, table_name)
        THEN DictSet(info, table_name, Append(Get(info, table_name), ColumnInfo(row)))
        ELSE DictSet(info, table_name, <<ColumnInfo(row)>>))

\* Lines 174-198: table_column_info after the first n rows.
RECURSIVE TableColumnInfo(_, _)
TableColumnInfo(source_info, n) ==
    IF n = 0 THEN <<>>
    ELSE Let(TableColumnInfo(source_info, n - 1),
             LAMBDA info : GroupRow(info, RowDict(source_info, n)))

\* Line 200: source_info.table_name.unique() over the first n rows: the
\* distinct table names in the order of their first row.
RECURSIVE UniqueTableNames(_, _)
UniqueTableNames(source_info, n) ==
    IF n = 0 THEN <<>>
    ELSE Let(UniqueTableNames(source_info, n - 1), LAMBDA seen :
             Let(RowGet(RowDict(source_info, n), "table_name"), LAMBDA table_name :
                 IF \E i \in 1..Len(seen) : seen[i] = table_name
                 THEN seen ELSE Append(seen, table_name)))

\* Lines 200-203: sources["tables"].
TableDefinitions(source_info) ==
    Let(TableColumnInfo(source_info, Len(source_info.rows)), LAMBDA info :
        Let(UniqueTableNames(source_info, Len(source_info.rows)), LAMBDA names :
            [i \in 1..Len(names) |->
                <<Entry("name", names[i]), Entry("columns", Get(info, names[i]))>>]))

\* Lines 167-172 and 207: the document handed to yaml.dump; the file holds
\* its dump, which sort_keys=False writes in this order.
SourcesDocument(source_info, source_db) ==
    <<Entry("version", 2),
      Entry("sources",
            << <<Entry("name", source_db), Entry("database", source_db),
                 Entry("schema", source_db),
                 Entry("tables", TableDefinitions(source_info))>> >>)>>

WriteEv(filename) == [op |-> "write", filename |-> filename]

\* The fields of a call on the dbt manager.
ProjectFields ==
    [evs |-> <<>>, ret |-> "None", out |-> NoOutcome, files |-> files, sources |-> sources]

\* A generator that opens the file for appending: a file that exists keeps its
\* documents and gets the new one behind them.
generate_sources_yml_appending(m, source_info, source_db) ==
    Then(Log(m, Msg("Creating sources YAML file for source {}", source_db), "INFO"),
         LAMBDA x :
            [Emit(x, WriteEv(SourcesFilename(source_db))) EXCEPT
                !.files[SourcesFilename(source_db)] =
                    File(@.doc \o SourcesDocument(source_info, source_db))])

\* Lines 153-211.  The source_info attribute is set by the constructor, so the
\* branch of line 154 is not taken.  A row whose len() raises ends the call
\* before the file is opened; open(path, "w") replaces the file.
generate_sources_yml(m, source_info, source_db) ==
    Then(Log(m, Msg("Creating sources YAML file for source {}", source_db), "INFO"),
         LAMBDA x :
            IF \E i \in 1..Len(source_info.rows) : LenRaises(RowDict(source_info, i))
            THEN [x EXCEPT !.out = Raise([type |-> "TypeError",
                                          text |-> "object of type 'NoneType' has no len()"])]
            ELSE [Emit(x, WriteEv(SourcesFilename(source_db))) EXCEPT
                     !.files[SourcesFilename(source_db)] =
                         File(SourcesDocument(source_info, source_db))])

\* Lines 100-125: dbtSource(source_info), which validates the source info.
\* A str has no attribute `columns`.
parse_source_info(m, source_info) ==
    IF source_info.type # "DataFrame"
    THEN [m EXCEPT !.out = Raise([type |-> "AttributeError",
                                  text |-> "'str' object has no attribute 'columns'"])]
    ELSE IF ~validate_source_info(source_info)
    THEN [m EXCEPT !.out = Raise([type |-> "ValueError",
                                  text |-> "Invalid source information provided."])]
    ELSE m

\* Lines 402-420.
refresh_source(m, source_info, source_name) ==
    Then(Then(parse_source_info(m, source_info),
              LAMBDA x : [x EXCEPT !.sources = DictSet(@, source_name, source_info)]),
         LAMBDA y : generate_sources_yml(y, source_info, source_name))

-----------------------------------------------------------------------------
(* SpecGen: refresh_source called again and again on one dbt manager.      *)

MaxRows == 2

AllColumns == <<"schema_name", "table_name", "column_name", "data_type", "is_nullable", "is_unique">>

ColumnNames == <<"c1", "c2", "c3", "c4", "c5">>
\* The flags of the i-th row: "0" and "1" are the FALSE and TRUE of the metadata
\* query, "nan" is the cell an outer join leaves empty.
RowFlags == << <<"1", "0">>, <<"0", "nan">>, <<"nan", "1">>, <<"0", "0">>, <<"1", "1">> >>

\* No row, and MaxRows rows of which the first belongs to table t and the
\* others are spread over the tables t and u in every way.
GroupFrames ==
    UNION { { DataFrameOf(AllColumns,
                [i \in 1..n |-> <<"s", tables[i], ColumnNames[i], "int",
                                  RowFlags[i][1], RowFlags[i][2]>>]) :
              tables \in { f \in [1..n -> {"t", "u"}] : n = 0 \/ f[1] = "t" } } :
            n \in {0, MaxRows} }

\* Rows of two tables interleaved, the later name first; only the required
\* columns; an empty data_type and flags that are a boolean and a float; a
\* data_type that is None; a description and a meta column.
OtherFrames ==
    { DataFrameOf(AllColumns,
                  [i \in 1..4 |-> <<"s", <<"u", "t", "u", "t">>[i], ColumnNames[i], "int",
                                    RowFlags[i][1], RowFlags[i][2]>>]),
      DataFrameOf(<<"schema_name", "table_name", "column_name">>,
                  << <<"s", "t", "c1">>, <<"s", "t", "c2">> >>),
      DataFrameOf(AllColumns, << <<"s", "t", "c1", "", "True", "1.0">> >>),
      DataFrameOf(AllColumns, << <<"s", "t", "c1", "None", "1", "0">> >>),
      DataFrameOf(<<"schema_name", "table_name", "column_name", "column_description", "meta",
                    "column_contains_pii">>,
                  << <<"s", "t", "c1", "the key", "x", "True">> >>) }

\* A required column is missing.
InvalidFrames ==
    { DataFrameOf(<<"schema_name", "column_name", "is_nullable">>, << <<"s", "c1", "1">> >>),
      DataFrameOf(<<"table_name", "column_name", "is_nullable">>, << <<"t", "c1", "1">> >>),
      DataFrameOf(<<"schema_name", "table_name", "is_nullable">>, << <<"s", "t", "1">> >>) }

SourceInfos == GroupFrames \cup OtherFrames \cup InvalidFrames \cup {ErrorText}

InitGen ==
    /\ target_profile = <<>>
    /\ connection_details = <<>>
    /\ ProjectIdle
    /\ ProcessIdle
    /\ DbtIdle
    /\ SessionIdle
    /\ call = NoCall
    /\ outcome = NoOutcome
    /\ events = <<>>

\* dbt_manager.refresh_source(source_info, source_name)
RefreshSource ==
    \E source_info \in SourceInfos, source_name \in SourceNames :
        /\ call' = [fn |-> "refresh_source", source_info |-> source_info,
                    source_name |-> source_name]
        /\ \E m \in { refresh_source(ProjectFields, source_info, source_name) } :
              /\ files' = m.files
              /\ sources' = m.sources
              /\ events' = m.evs
              /\ outcome' = IF Running(m) THEN Return(m.ret) ELSE m.out
        /\ UNCHANGED <<dbtVars, procVars, target_profile, connection_details, sessionVars>>

NextGen == RefreshSource

SpecGen == InitGen /\ [][NextGen]_vars

-----------------------------------------------------------------------------
(* ProjectManager.run_subprocess and the child it starts.                  *)

\* What a child does, step by step: it writes a line to its stdout or a chunk
\* of text to its stderr.
OutOp(text) == [fd |-> "stdout", text |-> text]
ErrOp(text) == [fd |-> "stderr", text |-> text]

OnFd(ops, fd) == SelectSeq(ops, LAMBDA op : op.fd = fd)

\* Line 146: the command gets the type as its first word unless it has it.
PrefixedCommand(command, type) ==
    IF Len(command) > Len(type) /\ SubSeq(command, 1, Len(type) + 1) = type \o " "
    THEN command ELSE type \o " " \o command

\* process.stderr.read(): all the text in the pipe.
RECURSIVE ReadAll(_)
ReadAll(chunks) == IF chunks = <<>> THEN "" ELSE Head(chunks) \o ReadAll(Tail(chunks))

\* A wrapper that reports a child which failed without a word on stderr.
ErrorMessageOrExitCode(p, log_subcommand_errors) ==
    IF ~log_subcommand_errors THEN ""
    ELSE IF ReadAll(p.stderr) = "" /\ p.returncode # "0"
    THEN "exit code " \o p.returncode
    ELSE ReadAll(p.stderr)

\* Lines 167-168: error_message, empty when log_subcommand_errors is off and
\* stderr is not read.  process.returncode is not looked at.
ErrorMessage(p, log_subcommand_errors) ==
    IF log_subcommand_errors THEN ReadAll(p.stderr) ELSE ""

\* A loop over the child's stdout that ends when no line is waiting.
EndOfStdoutEarly(p) == p.stdout = <<>>

\* Lines 161-163: `for line in process.stdout` ends at end of file: every
\* line was read and the child has closed its stdout.
EndOfStdout(p) == p.stdout = <<>> /\ ~p.stdout_open

-----------------------------------------------------------------------------
(* SpecProc: run_subprocess is called, then it and its child take steps in *)
(* any order.  A pipe holds PipeCapacity unread writes; a child that       *)
(* writes to a full pipe waits.                                            *)

MaxOutput == 3
PipeCapacity == 2

Commands == {"run", "dbt run"}
ExitCodes == {"0", "1"}
StdoutLines == {"a", " b "}
StderrChunks == {"e1;", "e2;"}

ChildOps == { OutOp(text) : text \in StdoutLines } \cup { ErrOp(text) : text \in StderrChunks }

ChildScripts == UNION { [1..n -> ChildOps] : n \in 0..MaxOutput }

InitProc ==
    /\ target_profile = <<>>
    /\ connection_details = <<>>
    /\ ProjectIdle
    /\ ProcessIdle
    /\ DbtIdle
    /\ SessionIdle
    /\ call = NoCall
    /\ outcome = NoOutcome
    /\ events = <<>>

ProcUnchanged == UNCHANGED <<dbtVars, genVars, target_profile, connection_details, sessionVars>>

\* Lines 146-159: run_subprocess(command, type="dbt", log_subcommand_errors)
\* prints the command and starts the child, which will do `todo`.
RunSubprocess ==
    \E command \in Commands, log_subcommand_errors \in BOOLEAN, todo \in ChildScripts :
        /\ pc \in {"idle", "done"}
        /\ call' = [fn |-> "run_subprocess",
                    command |-> PrefixedCommand(command, "dbt"),
                    log_subcommand_errors |-> log_subcommand_errors,
                    child |-> todo]
        /\ events' = <<PrintEv(PrefixedCommand(command, "dbt"))>>
        /\ process' = [status |-> "running", todo |-> todo, stdout |-> <<>>,
                       stdout_open |-> TRUE, stderr |-> <<>>, returncode |-> "None"]
        /\ pc' = "for"
        /\ outcome' = NoOutcome
        /\ ProcUnchanged

\* The child writes its next line to stdout.
ChildWritesStdout ==
    /\ process.status = "running"
    /\ process.todo # <<>>
    /\ Head(process.todo).fd = "stdout"
    /\ Len(process.stdout) < PipeCapacity
    /\ process' = [process EXCEPT !.todo = Tail(@),
                                  !.stdout = Append(@, Head(process.todo).text)]
    /\ UNCHANGED <<pc, call, outcome, events>>
    /\ ProcUnchanged

\* The child writes its next chunk to stderr.
ChildWritesStderr ==
    /\ process.status = "running"
    /\ process.todo # <<>>
    /\ Head(process.todo).fd = "stderr"
    /\ Len(process.stderr) < PipeCapacity
    /\ process' = [process EXCEPT !.todo = Tail(@),
                                  !.stderr = Append(@, Head(process.todo).text)]
    /\ UNCHANGED <<pc, call, outcome, events>>
    /\ ProcUnchanged

\* The child closes its stdout before it has written all of its stderr.
ChildClosesStdout ==
    /\ process.status = "running"
    /\ process.stdout_open
    /\ process.todo # <<>>
    /\ OnFd(process.todo, "stdout") = <<>>
    /\ process' = [process EXCEPT !.stdout_open = FALSE]
    /\ UNCHANGED <<pc, call, outcome, events>>
    /\ ProcUnchanged

\* The child exits with some exit code, which closes its stdout and stderr.
ChildExits ==
    /\ process.status = "running"
    /\ process.todo = <<>>
    /\ \E code \in ExitCodes :
          process' = [process EXCEPT !.status = "exited", !.stdout_open = FALSE,
                                    !.returncode = code]
    /\ UNCHANGED <<pc, call, outcome, events>>
    /\ ProcUnchanged

\* Lines 161-163: one turn of the loop: the next line is stripped (line 162,
\* line.strip()) and logged.
ReadLine ==
    /\ pc = "for"
    /\ process.stdout # <<>>
    /\ events' = Append(events, LogEntry(Strip(Head(process.stdout)), "INFO"))
    /\ process' = [process EXCEPT !.stdout = Tail(@)]
    /\ UNCHANGED <<pc, call, outcome>>
    /\ ProcUnchanged

\* Lines 161-165: the loop ends and process.wait() is called.
EndOfLoop ==
    /\ pc = "for"
    /\ EndOfStdout(process)
    /\ pc' = "wait"
    /\ UNCHANGED <<process, call, outcome, events>>
    /\ ProcUnchanged

\* Line 165: process.wait() returns when the child has exited.
Wait ==
    /\ pc = "wait"
    /\ process.status = "exited"
    /\ pc' = "read"
    /\ UNCHANGED <<process, call, outcome, events>>
    /\ ProcUnchanged

\* Lines 167-170: the text of stderr is read and, when there is any, logged
\* at ERROR level, which raises; without log_subcommand_errors nothing is read.
ReadStderr ==
    /\ pc = "read"
    /\ pc' = "done"
    /\ process' = IF call.log_subcommand_errors
                  THEN [process EXCEPT !.stderr = <<>>] ELSE process
    /\ \E error_message \in { ErrorMessage(process, call.log_subcommand_errors) } :
          IF error_message # ""
          THEN /\ events' = Append(events, LogEntry(error_message, "ERROR"))
               /\ outcome' = Raise(error_message)
          ELSE /\ events' = events
               /\ outcome' = Return("None")
    /\ UNCHANGED call
    /\ ProcUnchanged

NextProc ==
    \/ RunSubprocess
    \/ ChildWritesStdout
    \/ ChildWritesStderr
    \/ ChildClosesStdout
    \/ ChildExits
    \/ ReadLine
    \/ EndOfLoop
    \/ Wait
    \/ ReadStderr

SpecProc == InitProc /\ [][NextProc]_vars

\* The operating system schedules both processes: a child that can write,
\* close or exit does so in the end, and so does a parent whose read or
\* wait can return.  Nothing obliges the caller to call run_subprocess.
ProcFairness ==
    /\ WF_vars(ChildWritesStdout)
    /\ WF_vars(ChildWritesStderr)
    /\ WF_vars(ChildClosesStdout)
    /\ WF_vars(ChildExits)
    /\ WF_vars(ReadLine)
    /\ WF_vars(EndOfLoop)
    /\ WF_vars(Wait)
    /\ WF_vars(ReadStderr)

SpecProcLive == SpecProc /\ ProcFairness

-----------------------------------------------------------------------------
(* dbtMetadataManager and dbtManager: the project descriptor and profile.  *)
(* dbtManager.dbt_project_info and metadata_manager.project_yml_data are   *)
(* one dict object (get_project_data returns the cached dict), held here   *)
(* in metadata_manager.project_yml_data; likewise profiles_info.           *)

ProjectHome == "/p"

\* os.path.join(self.project_home, name)
JoinPath(home, name) == home \o "/" \o name

\* dict.get(key, default)
GetOr(d, key, default) == IF HasKey(d, key) THEN Get(d, key) ELSE default

\* Lines 315-352: the directory attributes in the order they are set, each
\* with its key in dbt_project.yml and the default list's only element.  All
\* but models_dir become None when the directory does not exist.
PathAttributes ==
    << [key |-> "model-paths",    attr |-> "models_dir",    default |-> "models",    optional |-> FALSE],
       [key |-> "macro-paths",    attr |-> "macros_dir",    default |-> "macros",    optional |-> TRUE],
       [key |-> "analysis-paths", attr |-> "analysis_dir",  default |-> "analysis",  optional |-> TRUE],
       [key |-> "seed-paths",     attr |-> "seeds_dir",     default |-> "seeds",     optional |-> TRUE],
       [key |-> "test-paths",     attr |-> "tests_dir",     default |-> "tests",     optional |-> TRUE],
       [key |-> "snapshot-paths", attr |-> "snapshots_dir", default |-> "snapshots", optional |-> TRUE],
       [key |-> "asset-paths",    attr |-> "assets_dir",    default |-> "assets",    optional |-> TRUE] >>

IndexError == [type |-> "IndexError", text |-> "pop from empty list"]
NoneHasNoGet == [type |-> "AttributeError", text |-> "'NoneType' object has no attribute 'get'"]

\* `path if os.path.exists(path) else None` for the optional directories.
DirOrNone(a, path) ==
    IF a.optional /\ path \notin { JoinPath(ProjectHome, d) : d \in disk.dirs }
    THEN "None" ELSE path

\* One directory attribute: self.dbt_project_info.get(key, [default]).pop()
\* takes the last element of the list off the list it is called on, which is
\* the list inside the loaded descriptor when the key is there, and raises
\* IndexError on an empty list.
ParsePath(x, a) ==
    Let(x.meta.project_yml_data, LAMBDA info :
        IF ~HasKey(info, a.key)
        THEN [x EXCEPT !.dbt.dirs = DictSet(@, a.attr, DirOrNone(a, JoinPath(ProjectHome, a.default)))]
        ELSE IF Get(info, a.key) = <<>>
        THEN [x EXCEPT !.out = Raise(IndexError)]
        ELSE Let(Get(info, a.key), LAMBDA paths :
                 [x EXCEPT !.meta.project_yml_data =
                               DictSet(info, a.key, SubSeq(paths, 1, Len(paths) - 1)),
                           !.dbt.dirs =
                               DictSet(@, a.attr,
                                       DirOrNone(a, JoinPath(ProjectHome, paths[Len(paths)])))]))

\* The first n directory attributes.
RECURSIVE ParsePaths(_, _)
ParsePaths(m, n) ==
    IF n = 0 THEN m
    ELSE Then(ParsePaths(m, n - 1), LAMBDA x : ParsePath(x, PathAttributes[n]))

\* Lines 301-368.  With or without the argument the descriptor that is parsed
\* is self.dbt_project_info, the dict the metadata manager loaded.
parse_dbt_project_info(m, dbt_project_info) ==
    Then([m EXCEPT !.dbt.project_name = GetOr(m.meta.project_yml_data, "name", "None")],
         LAMBDA x : Then(ParsePaths(x, Len(PathAttributes)),
                         LAMBDA y : [y EXCEPT !.ret = y.meta.project_yml_data]))

\* Lines 370-391.  `A or B if C else D` is `(A or B) if C else D`, and the
\* attribute target_name is always there, so the name is the target of
\* profiles.yml when that is set and self.target_name otherwise.
parse_profiles_info(m, profiles_info) ==
    Let(m.meta.profiles_yml_data, LAMBDA profiles :
        IF ~HasKey(profiles, m.dbt.project_name)
        THEN [m EXCEPT !.out = Raise(NoneHasNoGet)]
        ELSE Let(Get(profiles, m.dbt.project_name), LAMBDA entry :
             Let(IF GetOr(entry, "target", "None") # "None"
                 THEN Get(entry, "target") ELSE m.dbt.target_name, LAMBDA target_name :
                 IF ~HasKey(entry, "outputs")
                 THEN [m EXCEPT !.dbt.target_name = target_name,
                                !.out = Raise(NoneHasNoGet)]
                 ELSE [m EXCEPT !.dbt.target_name = target_name,
                                !.dbt.target_found = HasKey(Get(entry, "outputs"), target_name),
                                !.target_profile =
                                    GetOr(Get(entry, "outputs"), target_name, <<>>),
                                !.ret = profiles])))

\* Lines 31-44 and 254-273: dbtManager(project_home, target) loads the two
\* files afresh and parses them.
dbtManager_init(m, target) ==
    Then([m EXCEPT !.dbt = [NoDbt EXCEPT !.target_name = target],
                   !.meta = [loaded |-> TRUE, project_yml_data |-> disk.project_yml,
                             profiles_yml_data |-> disk.profiles_yml]],
    LAMBDA a : Then(Log(a, Msg("Retrieved content of dbt_project.yml.", ""), "INFO"),
    LAMBDA b : Then(Log(b, Msg("Retrieved content of profiles.yml.", ""), "INFO"),
    LAMBDA c : Then(parse_dbt_project_info(c, "None"),
    LAMBDA d : Then(parse_profiles_info(d, target),
    LAMBDA e : Log(e, Msg("Initialized DBT Manager for project '{}'", e.dbt.project_name),
                   "INFO"))))))

\* project_manager.py lines 109-124.
get_dbt_manager(m, target_profile_name) ==
    Then(dbtManager_init(m, target_profile_name),
    LAMBDA x : Then(Log(x, Msg("DBT manager attached to project manager for {}", "proj"), "INFO"),
    LAMBDA y : [y EXCEPT !.dbt.constructed = TRUE, !.ret = "dbtManager"]))

-----------------------------------------------------------------------------
(* SpecDbt: a project home with a dbt_project.yml and a profiles.yml, a    *)
(* project manager that constructs dbt managers for it, and calls of the   *)
(* two parse methods on the manager it holds.                              *)

OutputNames == {"dev", "prod"}
TargetArgs == {"None"} \cup OutputNames

\* The outputs of the profile: one entry per output name.
Outputs ==
    <<Entry("dev", <<Entry("type", "singlestore"), Entry("host", "dev.db")>>),
      Entry("prod", <<Entry("type", "singlestore"), Entry("host", "prod.db")>>)>>

\* profiles.yml: the project's profile with a default target, without one,
\* and a file without a profile for the project.
ProfilesYmls ==
    { <<Entry("proj", <<Entry("target", t), Entry("outputs", Outputs)>>)>> : t \in OutputNames }
    \cup { <<Entry("proj", <<Entry("outputs", Outputs)>>)>>,
           <<Entry("other", <<Entry("target", "dev"), Entry("outputs", Outputs)>>)>> }

\* dbt_project.yml: no path key; path lists of one element; a list of two;
\* an empty list.
ProjectYmls ==
    { <<Entry("name", "proj")>>,
      <<Entry("name", "proj"), Entry("model-paths", <<"models">>),
        Entry("seed-paths", <<"data">>)>>,
      <<Entry("name", "proj"), Entry("model-paths", <<"models", "marts">>),
        Entry("macro-paths", <<"macros">>)>>,
      <<Entry("name", "proj"), Entry("model-paths", <<"models">>),
        Entry("asset-paths", <<>>)>> }

DirSets == { {}, {"macros", "data", "seeds"} }

Disks ==
    { [project_yml |-> y, profiles_yml |-> p, dirs |-> d] :
        y \in ProjectYmls, p \in ProfilesYmls, d \in DirSets }

InitDbt ==
    /\ target_profile = <<>>
    /\ connection_details = <<>>
    /\ ProjectIdle
    /\ ProcessIdle
    /\ disk \in Disks
    /\ metadata_manager = NoMetadata
    /\ dbt = NoDbt
    /\ SessionIdle
    /\ call = NoCall
    /\ outcome = NoOutcome
    /\ events = <<>>

\* The fields a call on the dbt manager works on.
DbtFields ==
    [evs |-> <<>>, ret |-> "None", out |-> NoOutcome, meta |-> metadata_manager, dbt |-> dbt,
     target_profile |-> target_profile]

DbtUnchanged ==
    UNCHANGED <<disk, procVars, genVars, connection_details, sessionVars>>

\* project.get_dbt_manager(target_profile): a constructor that raises leaves
\* the project manager with the dbt manager it had.
GetDbtManager ==
    \E target \in TargetArgs :
        /\ call' = [fn |-> "get_dbt_manager", target_profile |-> target]
        /\ \E m \in { get_dbt_manager(DbtFields, target) } :
              /\ events' = m.evs
              /\ outcome' = IF Running(m) THEN Return(m.ret) ELSE m.out
              /\ IF Running(m)
                 THEN /\ dbt' = m.dbt
                      /\ metadata_manager' = m.meta
                      /\ target_profile' = m.target_profile
                 ELSE UNCHANGED <<dbt, metadata_manager, target_profile>>
        /\ DbtUnchanged

\* dbt_manager.parse_dbt_project_info(), with or without a descriptor.
ParseDbtProjectInfo ==
    \E given \in BOOLEAN :
        /\ dbt.constructed
        /\ call' = [fn |-> "parse_dbt_project_info", given |-> given]
        /\ \E m \in { parse_dbt_project_info(DbtFields,
                            IF given THEN metadata_manager.project_yml_data ELSE "None") } :
              /\ events' = m.evs
              /\ outcome' = IF Running(m) THEN Return("dict") ELSE m.out
              /\ dbt' = m.dbt
              /\ metadata_manager' = m.meta
        /\ UNCHANGED target_profile
        /\ DbtUnchanged

\* dbt_manager.parse_profiles_info()
ParseProfilesInfo ==
    /\ dbt.constructed
    /\ call' = [fn |-> "parse_profiles_info"]
    /\ \E m \in { parse_profiles_info(DbtFields, "None") } :
          /\ events' = m.evs
          /\ outcome' = IF Running(m) THEN Return("dict") ELSE m.out
          /\ dbt' = m.dbt
          /\ metadata_manager' = m.meta
          /\ target_profile' = m.target_profile
    /\ DbtUnchanged

NextDbt == GetDbtManager \/ ParseDbtProjectInfo \/ ParseProfilesInfo

SpecDbt == InitDbt /\ [][NextDbt]_vars

-----------------------------------------------------------------------------
(* SingleStoreConnectionManager.build_connection_string.  The values of    *)
(* the dict carry their Python type, since str.format writes a str as it   *)
(* is, an int in decimal and None as the text None.                        *)

PyStr(text) == [t |-> "str", s |-> text]
PyInt(number) == [t |-> "int", n |-> number]
PyNone == [t |-> "None"]

\* "{}".format(value)
Format(value) ==
    CASE value.t = "str" -> value.s
      [] value.t = "int" -> ToString(value.n)
      [] value.t = "None" -> "None"

KeyErrorOf(key) == [type |-> "KeyError", text |-> key]

\* connection_details[key] for the keys the format call subscripts, in the
\* order of its arguments: the first one that is missing raises KeyError.
SubscriptedKeys == <<"user", "pass", "host", "port">>

MissingKeys(cd) == { i \in 1..Len(SubscriptedKeys) : ~HasKey(cd, SubscriptedKeys[i]) }

\* A builder that subscripts the database like the other keys.
build_connection_string_strict(cd) ==
    IF MissingKeys(cd) # {}
    THEN Raise(KeyErrorOf(SubscriptedKeys[CHOOSE i \in MissingKeys(cd) :
                                             \A j \in MissingKeys(cd) : i <= j]))
    ELSE IF ~HasKey(cd, "database") THEN Raise(KeyErrorOf("database"))
    ELSE Return("mysql://" \o Format(Get(cd, "user")) \o ":" \o Format(Get(cd, "pass"))
                \o "@" \o Format(Get(cd, "host")) \o ":" \o Format(Get(cd, "port"))
                \o "/" \o Format(Get(cd, "database")))

\* Lines 425-445.
build_connection_string(cd) ==
    IF MissingKeys(cd) # {}
    THEN Raise(KeyErrorOf(SubscriptedKeys[CHOOSE i \in MissingKeys(cd) :
                                             \A j \in MissingKeys(cd) : i <= j]))
    ELSE Return("mysql://" \o Format(Get(cd, "user")) \o ":" \o Format(Get(cd, "pass"))
                \o "@" \o Format(Get(cd, "host")) \o ":" \o Format(Get(cd, "port"))
                \o "/" \o Format(IF HasKey(cd, "database") THEN Get(cd, "database")
                                  ELSE PyNone))

-----------------------------------------------------------------------------
(* SpecConn: one call of build_connection_string on a dict of normalized   *)
(* details drawn from a bounded set.                                       *)

\* For each key, the values a dict may hold under it; <<>> is its absence.
DetailChoices ==
    << [key |-> "type",     values |-> {PyStr("mysql")}],
       [key |-> "user",     values |-> {PyStr("u"), PyStr("admin")}],
       [key |-> "pass",     values |-> {PyStr("p")}],
       [key |-> "host",     values |-> {PyStr("h")}],
       [key |-> "port",     values |-> {PyInt(5000), PyStr("3306")}],
       [key |-> "database", values |-> {PyStr("d"), PyNone}] >>

\* The dicts with the first n keys of DetailChoices decided.
RECURSIVE DetailDicts(_)
DetailDicts(n) ==
    IF n = 0 THEN { <<>> }
    ELSE UNION { {d} \cup { Append(d, Entry(DetailChoices[n].key, v)) :
                              v \in DetailChoices[n].values } :
                 d \in DetailDicts(n - 1) }

NormalizedDetails == DetailDicts(Len(DetailChoices))

InitConn ==
    /\ target_profile = <<>>
    /\ connection_details \in NormalizedDetails
    /\ ProjectIdle
    /\ ProcessIdle
    /\ DbtIdle
    /\ SessionIdle
    /\ call = NoCall
    /\ outcome = NoOutcome
    /\ events = <<>>

\* manager.build_connection_string(connection_details)
BuildConnectionString ==
    /\ call = NoCall
    /\ call' = [fn |-> "build_connection_string"]
    /\ outcome' = build_connection_string(connection_details)
    /\ UNCHANGED <<dbtVars, procVars, genVars, target_profile, connection_details, sessionVars,
                   events>>

NextConn == BuildConnectionString

SpecConn == InitConn /\ [][NextConn]_vars

-----------------------------------------------------------------------------
(* SpecScript: the tail of generate_sources.py, run once: the metadata     *)
(* query is formatted and executed and its result handed to                *)
(* refresh_source.                                                         *)

\* bool(value) of a str or None.
Truthy(value) == value \notin {"None", ""}

\* Lines 56-94, shortened: the query text with both {database} fields.
MetadataQueryText(database) ==
    "with column_info as (SELECT ... FROM information_schema.columns WHERE TABLE_SCHEMA = '"
    \o database
    \o "'), column_constraints as (SELECT ... FROM information_schema.key_column_usage WHERE TABLE_SCHEMA = '"
    \o database
    \o "') SELECT DISTINCT ... ORDER BY 1, 2, 3;"

\* Lines 95-97: .format(database=args.database or connection_details.get("database"))
metadata_query(args_database, cd) ==
    MetadataQueryText(IF Truthy(args_database) THEN args_database
                      ELSE GetOr(cd, "database", "None"))

\* --database: omitted (None) or a name.
DatabaseArgs == {"None"} \cup SourceNames

\* What the database answers to the metadata query.
MetadataFrames == GroupFrames \cup OtherFrames \cup InvalidFrames

\* The connection details of the target profile, with or without a database.
ScriptDetails ==
    { <<Entry("type", "mysql"), Entry("host", "v"), Entry("user", "v"), Entry("pass", "v")>> }
    \cup { <<Entry("type", "mysql"), Entry("host", "v"), Entry("user", "v"),
             Entry("pass", "v"), Entry("database", name)>> : name \in SourceNames }

InitScript ==
    /\ target_profile = <<>>
    /\ connection_details \in ScriptDetails
    /\ ProjectIdle
    /\ ProcessIdle
    /\ DbtIdle
    /\ SessionIdle
    /\ call = NoCall
    /\ outcome = NoOutcome
    /\ events = <<>>

\* Lines 95-101: metadata = connection_manager.execute_query(metadata_query);
\* dbt_manager.refresh_source(source_info=metadata, source_name=args.database).
\* A query the database rejects comes back as the text of the error.
GenerateSources ==
    \E args_database \in DatabaseArgs, fate \in Fates(1), frame \in MetadataFrames :
        /\ call = NoCall
        /\ \E m \in { execute_query(Fields(fate), metadata_query(args_database, connection_details),
                                     TRUE) } :
           \E metadata \in { IF fate[1] THEN frame ELSE ErrorText } :
           \E g \in { refresh_source(ProjectFields, metadata, args_database) } :
              /\ call' = [fn |-> "generate_sources", database |-> args_database,
                          source_info |-> metadata, source_name |-> args_database]
              /\ current_session' = m.cur
              /\ sessions' = m.sess
              /\ session_query_history' = m.sqh
              /\ all_query_history' = m.aqh
              /\ executed' = executed \o Executions(m.evs)
              /\ files' = g.files
              /\ sources' = g.sources
              /\ events' = m.evs \o g.evs
              /\ outcome' = IF Running(g) THEN Return(g.ret) ELSE g.out
        /\ UNCHANGED <<dbtVars, procVars, target_profile, connection_details, should_run_hooks,
                       pre_run_hooks, post_run_hooks, ctx>>

NextScript == GenerateSources

SpecScript == InitScript /\ [][NextScript]_vars

-----------------------------------------------------------------------------
(* Properties of standardize_connection_details (SpecNorm).                *)

Standardized == call.fn = "standardize_connection_details"

ErrorEntries == LogsAt(events, {"ERROR", "CRITICAL"})

\* The alias table as the specification reads it: the names listed for canonical key c.
ListedAliases(c) ==
    UNION { IF keyword_map[j].key # c THEN {}
            ELSE IF keyword_map[j].is_tuple
                 THEN { keyword_map[j].alts[n] : n \in 1..Len(keyword_map[j].alts) }
                 ELSE { keyword_map[j].alts } : j \in 1..Len(keyword_map) }

\* The canonical keys that list the name (in any letter case) as an alias.
CanonicalFor(name) == { c \in CanonicalKeys : Lower(name) \in ListedAliases(c) }

\* The required keys that the renaming loop did not produce.
MissingRequired(cd) == base_keys(cd) \ Keys(StandardizeLoop(cd, Len(cd)).std)

C4_ErrorPerMissingKeyPlusSummary ==
    (Standardized /\ MissingRequired(connection_details) # {}) =>
        Len(ErrorEntries) = Cardinality(MissingRequired(connection_details)) + 1

\* C5: a mapping accepted without error has the required keys of its normalized
\* type: snowflake needs account, user, pass, database and warehouse, any other
\* type needs host, user and pass.
C5_AcceptedHasRequiredKeys ==
    (Standardized /\ outcome.kind = "return") =>
        IF HasKey(outcome.value, "type") /\ Lower(Get(outcome.value, "type")) = "snowflake"
        THEN SnowflakeKeys \subseteq Keys(outcome.value)
        ELSE DefaultKeys \subseteq Keys(outcome.value)

\* C6 (as stated): for an alias k of canonical key c, in any letter case,
\* normalizing the one-entry mapping {k: v} yields {c: v}.
C6_SingleAliasYieldsCanonical ==
    (Standardized /\ Len(connection_details) = 1) =>
        \A c \in CanonicalFor(connection_details[1].k) :
            /\ outcome.kind = "return"
            /\ DictEq(outcome.value, <<Entry(c, connection_details[1].v)>>)

\* C6 (amended): for an alias k of canonical key c, in any letter case, in a
\* mapping with no other key that normalizes to c: if the mapping is accepted,
\* the result holds v under c and has no key k unless k is c; the one-entry
\* mapping {k: v} is rejected with a raised error, since required keys are missing.
C6_AliasRenamedWhenAccepted ==
    Standardized =>
        \A i \in 1..Len(connection_details) :
            \A c \in CanonicalFor(connection_details[i].k) :
                LET k == connection_details[i].k
                    v == connection_details[i].v
                    alone == \A n \in 1..Len(connection_details) :
                                n # i => c \notin CanonicalFor(connection_details[n].k)
                IN  /\ (alone /\ outcome.kind = "return") =>
                          /\ HasKey(outcome.value, c)
                          /\ Get(outcome.value, c) = v
                          /\ k # c => ~HasKey(outcome.value, k)
                    /\ Len(connection_details) = 1 => outcome.kind = "raise"

C6_Witness ==
    /\ Standardized
    /\ outcome.kind = "return"
    /\ \E i \in 1..Len(connection_details) :
          /\ connection_details[i].k = "HostName"
          /\ connection_details[i].v = "b"
          /\ HasKey(outcome.value, "host")
          /\ Get(outcome.value, "host") = "b"

\* C7: an input key that matches no alias of any canonical key is passed
\* through: it is in the normalized mapping under its original name with its
\* original value, and a log entry is emitted for it.
C7_UnknownKeyPassedThrough ==
    (Standardized /\ outcome.kind = "return") =>
        \A i \in 1..Len(connection_details) :
            CanonicalFor(connection_details[i].k) = {} =>
                /\ HasKey(outcome.value, connection_details[i].k)
                /\ Get(outcome.value, connection_details[i].k) = connection_details[i].v
                /\ \E n \in 1..Len(events) :
                      /\ IsLog(events[n])
                      /\ events[n].message = ExtraKeyMessage(connection_details[i].k)

-----------------------------------------------------------------------------
(* Properties of the ConnectionManager's sessions (Spec).                  *)

\* The sessions the last call created.
CreatedByCall == { events[n].sid : n \in { i \in 1..Len(events) : events[i].op = "create" } }

AllClosed == \A sid \in 1..Len(sessions) : sessions[sid] = "closed"

\* C1: batch_execute_queries always closes the session it opened, for every
\* statement list and both values of continue_on_error, also when a failing
\* statement makes the error propagate out of the batch (stated for a manager
\* without hooks).
C1_BatchClosesItsSession ==
    (call.fn = "batch_execute_queries" /\ ~should_run_hooks) =>
        /\ current_session = 0
        /\ \A sid \in CreatedByCall : sessions[sid] = "closed"

\* all_query_history ends with the history of the session.
HistoryFlushed ==
    /\ Len(all_query_history) >= Len(session_query_history)
    /\ SubSeq(all_query_history,
              Len(all_query_history) - Len(session_query_history) + 1,
              Len(all_query_history)) = session_query_history

\* C2: when the `with` block of a manager is left, normally or by an
\* exception, the session is released: it is closed and its history is in
\* all_query_history, for every manager, with hooks or without.
C2_ExitReleasesSession ==
    call.fn = "__exit__" =>
        /\ current_session = 0
        /\ AllClosed
        /\ HistoryFlushed

\* The last call was execute_query and the database rejected its statement:
\* n is the position of that execution in events.
FailedAt(n) ==
    /\ call.fn = "execute_query"
    /\ n \in 1..Len(events)
    /\ events[n].op = "execute"
    /\ events[n].query = call.query
    /\ ~events[n].ok
    /\ \A later \in (n + 1)..Len(events) : events[later].op # "execute"

QueryFailed == \E n \in 1..Len(events) : FailedAt(n)

\* C8, the failing call: under continue-on-error it rolls the transaction
\* back, returns the error's text without raising and leaves the session it
\* ran in open and current.
C8_FailedCallKeepsSession ==
    \A n \in 1..Len(events) :
        (FailedAt(n) /\ call.continue_on_error) =>
            /\ outcome = Return(Str(DbError(call.query)))
            /\ \E r \in (n + 1)..Len(events) : events[r] = RollbackEv(events[n].sid)
            /\ current_session = events[n].sid
            /\ sessions[current_session] = "open"

\* C8, the call after it: a following execute_query creates no session and
\* executes on that same session.
C8_NextCallReusesSession ==
    (QueryFailed /\ call.continue_on_error /\ call'.fn = "execute_query") =>
        /\ current_session' = current_session
        /\ sessions' = sessions
        /\ \A n \in 1..Len(events') :
              /\ events'[n].op # "create"
              /\ events'[n].op = "execute" => events'[n].sid = current_session

\* C8: when a query fails under continue-on-error, execute_query rolls back,
\* returns the error's text without raising, and leaves the same session open
\* and usable: a following execute_query runs against that session and no new
\* session is created.
C8_ContinueOnErrorKeepsSession ==
    [](C8_FailedCallKeepsSession) /\ [][C8_NextCallReusesSession]_vars

C8_Witness ==
    /\ QueryFailed
    /\ call.continue_on_error
    /\ Len(session_query_history) >= 1
    /\ Len(all_query_history) >= 1

\* C9: when a query fails and continue-on-error is disabled, execute_query
\* first rolls the transaction back and then raises; it returns no value.  The
\* exception is the one log raises for the ERROR entry, the call's last event.
C9_FailureWithoutContinueRaises ==
    \A n \in 1..Len(events) :
        (FailedAt(n) /\ ~call.continue_on_error) =>
            /\ outcome.kind = "raise"
            /\ \E r \in (n + 1)..Len(events) :
                  /\ events[r] = RollbackEv(events[n].sid)
                  /\ r < Len(events)
            /\ IsLog(events[Len(events)])
            /\ events[Len(events)].level = "ERROR"
            /\ outcome.value = events[Len(events)].message

C9_Witness ==
    /\ QueryFailed
    /\ ~call.continue_on_error
    /\ Len(session_query_history) >= 1

-----------------------------------------------------------------------------
(* Properties of log (SpecSecret).                                         *)

\* C10: every call of log with level ERROR raises and ends the enclosing
\* script, so no call returns normally after it has logged an ERROR entry;
\* and a call that logs only at WARN, INFO or DEBUG does not raise.
C10_ErrorEntryAlwaysRaises ==
    /\ LogsAt(events, {"ERROR"}) # <<>> => outcome.kind = "raise"
    /\ (call.fn = "log" /\ call.level \in {"WARN", "INFO", "DEBUG"}) => outcome.kind = "return"

-----------------------------------------------------------------------------
(* Properties of render_jinja (SpecSecret).                                *)

RenderFails(input) == input.is_str /\ JinjaRender(input.text).result # "ok"

-----------------------------------------------------------------------------
(* Properties of batch execution and the histories (Spec).                 *)

\* The positions in events of the operations op.
EventsOf(op) == { n \in 1..Len(events) : events[n].op = op }

\* C12: batch execution of any list of N >= 0 statements under
\* continue-on-error creates exactly one session and closes that session
\* exactly once, whatever N is and whichever statements fail.
C12_BatchOneSessionClosedOnce ==
    (call.fn = "batch_execute_queries" /\ call.continue_on_error) =>
        /\ Cardinality(EventsOf("create")) = 1
        /\ \A c \in EventsOf("create") :
              Cardinality({ n \in EventsOf("close") : events[n].sid = events[c].sid }) = 1

\* The statements of a sequence of executions.
QueriesOf(execs) == [i \in 1..Len(execs) |-> execs[i].query]

\* a is a subsequence of b: b holds the elements of a, in the order of a.
RECURSIVE IsSubsequence(_, _)
IsSubsequence(a, b) ==
    IF a = <<>> THEN TRUE
    ELSE IF b = <<>> THEN FALSE
    ELSE IF Head(a) = Head(b) THEN IsSubsequence(Tail(a), Tail(b))
    ELSE IsSubsequence(a, Tail(b))

IsClosed(sid) == sessions[sid] = "closed"

\* C13 (as stated): once a session is closed, every statement executed in it
\* through execute_query, failed executions included, is in
\* all_query_history, in execution order.
C13_EveryExecutionInAllHistory ==
    \A sid \in 1..Len(sessions) :
        IsClosed(sid) =>
            IsSubsequence(QueriesOf(SelectSeq(executed, LAMBDA e : e.sid = sid)),
                          all_query_history)

\* C13 (amended): all_query_history is exactly the statements that the
\* database ran in the sessions closed so far, in execution order; a
\* statement the database rejected is in no history.
C13_AcceptedExecutionsInAllHistory ==
    all_query_history =
        QueriesOf(SelectSeq(executed, LAMBDA e : IsClosed(e.sid) /\ e.ok))

C13_Witness ==
    \E sid \in 1..Len(sessions) :
        /\ IsClosed(sid)
        /\ \E i, j \in 1..Len(executed) :
              /\ executed[i].sid = sid /\ executed[i].ok
              /\ executed[j].sid = sid /\ ~executed[j].ok
        /\ all_query_history # <<>>

\* C14: on success execute_query returns the tabular result and appends the
\* statement to the per-session history: session_query_history is exactly the
\* statements, in order, whose execute_query succeeded (returned the table)
\* since the current session was started; a statement whose execute_query
\* reported a failure is absent.
C14_SessionHistoryIsTheSuccesses ==
    current_session # 0 =>
        session_query_history =
            QueriesOf(SelectSeq(executed,
                LAMBDA e : e.sid = current_session /\ e.result = "DataFrame"))

\* The statements executed by the last call, in order.
ExecutedByCall == QueriesOf(Executions(events))

\* C15: pre-run hooks are executed when a session starts, post-run hooks when
\* it closes: start_new_session executes the pre-run hooks and no post-run
\* hook, and close_current_session executes the post-run hooks on the session
\* before it closes it.
C15_PreHooksAtStartPostHooksAtClose ==
    /\ (call.fn = "start_new_session" /\ EventsOf("create") # {}) =>
            /\ pre_run_hooks # "" => \E i \in 1..Len(ExecutedByCall) : ExecutedByCall[i] = pre_run_hooks
            /\ post_run_hooks # "" => \A i \in 1..Len(ExecutedByCall) : ExecutedByCall[i] # post_run_hooks
    /\ (call.fn = "close_current_session" /\ post_run_hooks # "") =>
            /\ outcome.kind = "return"
            /\ \A c \in EventsOf("close") :
                  \E n \in 1..(c - 1) :
                      /\ events[n].op = "execute"
                      /\ events[n].sid = events[c].sid
                      /\ events[n].query = post_run_hooks

-----------------------------------------------------------------------------
(* Properties of the sources file generator (SpecGen).                     *)

Refreshed == call.fn = "refresh_source"

\* The call was handed a metadata table without one of the required columns.
LacksRequired ==
    /\ Refreshed
    /\ call.source_info.type = "DataFrame"
    /\ \E c \in REQUIRED_TABLE_FIELDS : c \notin ColumnsOf(call.source_info)

Writes(evs) == SelectSeq(evs, LAMBDA e : e.op = "write")

\* C16: a refresh_source call whose metadata table lacks schema_name,
\* table_name or column_name raises the ValueError of the validation
\* ("Invalid source information provided."), opens no file for writing and
\* leaves every sources file, the one of its source name included, as it was:
\* not created when absent, not modified when present.
C16_InvalidSourceInfoWritesNothing ==
    [][ LacksRequired' =>
          /\ outcome'.kind = "raise"
          /\ outcome'.value.type = "ValueError"
          /\ outcome'.value.text = "Invalid source information provided."
          /\ Writes(events') = <<>>
          /\ files' = files ]_vars

\* A table without a required column was refused while the file of its source
\* name was on disk from an earlier generation.
C16_Witness ==
    /\ LacksRequired
    /\ outcome.kind = "raise"
    /\ files[SourcesFilename(call.source_name)].exists
    /\ \E c \in REQUIRED_TABLE_FIELDS \ {"table_name"} : c \notin ColumnsOf(call.source_info)

\* refresh_source returned: the file of the call's source name was written.
Generated == Refreshed /\ outcome.kind = "return"

GeneratedFile == files[SourcesFilename(call.source_name)]

\* The one source of the file of the call, and its table definitions.
GeneratedSource == Get(GeneratedFile.doc, "sources")[1]
GeneratedTables == Get(GeneratedSource, "tables")

CallRows == 1..Len(call.source_info.rows)
CallRow(i) == RowDict(call.source_info, i)

\* Column descriptor c of table definition t of the file is the one of row i:
\* it stands under the row's table_name and carries the row's column_name.
IsDescriptorOf(t, c, i) ==
    /\ Get(GeneratedTables[t], "name") = RowGet(CallRow(i), "table_name")
    /\ Get(Get(GeneratedTables[t], "columns")[c], "name") = RowGet(CallRow(i), "column_name")

\* The tests of a descriptor; a descriptor without the key has none.
TestsOf(descriptor) == IF HasKey(descriptor, "tests") THEN Get(descriptor, "tests") ELSE <<>>

\* The tests the specification attaches to a row, `== 1` being Python's
\* comparison of the cell with the integer 1.
ExpectedTests(row) ==
    (IF PyEqualsOne(RowGet(row, "is_nullable")) THEN <<"not_null">> ELSE <<>>)
    \o (IF PyEqualsOne(RowGet(row, "is_unique")) THEN <<"unique">> ELSE <<>>)

\* The tests found in the file for row i, each written once.
RowTests(i) ==
    { TestsOf(Get(GeneratedTables[t], "columns")[c]) :
        <<t, c>> \in { tc \in (1..Len(GeneratedTables)) \X CallRows :
                         /\ tc[2] <= Len(Get(GeneratedTables[tc[1]], "columns"))
                         /\ IsDescriptorOf(tc[1], tc[2], i) } }

\* C17: in a generated file the descriptor of every metadata row has the
\* test "not_null" exactly when the row's is_nullable equals 1 and the test
\* "unique" exactly when its is_unique equals 1, not_null before unique when
\* both, each at most once, and no other test.
C17_TestsFollowTheFlags ==
    Generated =>
        \A i \in CallRows :
            /\ RowTests(i) # {}
            /\ \A tests \in RowTests(i) :
                  /\ \A n \in 1..Len(tests) : tests[n] \in {"not_null", "unique"}
                  /\ (\E n \in 1..Len(tests) : tests[n] = "not_null")
                        <=> PyEqualsOne(RowGet(CallRow(i), "is_nullable"))
                  /\ (\E n \in 1..Len(tests) : tests[n] = "unique")
                        <=> PyEqualsOne(RowGet(CallRow(i), "is_unique"))
                  /\ tests = ExpectedTests(CallRow(i))

\* One generated file holds a column tested for not_null only, one tested for
\* unique only and one without a test, the last for a flag that is 0 and a
\* flag that is NaN.
C17_Witness ==
    /\ Generated
    /\ \E i, j, k \in CallRows :
          /\ RowTests(i) = { <<"not_null">> }
          /\ RowTests(j) = { <<"unique">> }
          /\ RowTests(k) = { <<>> }
          /\ RowGet(CallRow(k), "is_nullable") = "0"
          /\ RowGet(CallRow(k), "is_unique") = "nan"

TableNameOfRow(i) == RowGet(CallRow(i), "table_name")

\* The first row of the input that names the table.
FirstRowOf(table_name) ==
    CHOOSE i \in CallRows :
        /\ TableNameOfRow(i) = table_name
        /\ \A j \in 1..(i - 1) : TableNameOfRow(j) # table_name

\* The rows of the input that name the table, in input order.
RowsOfTable(table_name) ==
    SelectSeq([i \in CallRows |-> CallRow(i)],
              LAMBDA row : RowGet(row, "table_name") = table_name)

\* The names of the columns a table definition lists, in order.
ColumnNamesOf(table) ==
    [c \in 1..Len(Get(table, "columns")) |-> Get(Get(table, "columns")[c], "name")]

\* C18: a generated file has one table definition for each distinct
\* table_name of the input and no other, the definitions stand in the order in
\* which the names first occur in the input, and the columns of a definition
\* are the descriptors of the rows with its table_name, one per row, in the
\* order of the rows.
C18_TablesGroupRowsInOrder ==
    Generated =>
        /\ \A i \in CallRows :
              \E t \in 1..Len(GeneratedTables) :
                  Get(GeneratedTables[t], "name") = TableNameOfRow(i)
        /\ \A t \in 1..Len(GeneratedTables) :
              \E i \in CallRows : Get(GeneratedTables[t], "name") = TableNameOfRow(i)
        /\ \A a, b \in 1..Len(GeneratedTables) :
              a < b => FirstRowOf(Get(GeneratedTables[a], "name"))
                         < FirstRowOf(Get(GeneratedTables[b], "name"))
        /\ \A t \in 1..Len(GeneratedTables) :
              LET rows == RowsOfTable(Get(GeneratedTables[t], "name"))
              IN  /\ Len(Get(GeneratedTables[t], "columns")) = Len(rows)
                  /\ ColumnNamesOf(GeneratedTables[t])
                        = [c \in 1..Len(rows) |-> RowGet(rows[c], "column_name")]
                  /\ \A c \in 1..Len(rows) :
                        /\ TestsOf(Get(GeneratedTables[t], "columns")[c])
                              = ExpectedTests(rows[c])
                        /\ Len(Get(GeneratedTables[t], "columns")[c])
                              = Len(ColumnInfo(rows[c]))

\* A file generated from rows of the tables u, t, u, t: table u stands before
\* table t and each lists its two columns in row order.
C18_Witness ==
    /\ Generated
    /\ Len(call.source_info.rows) = 4
    /\ Len(GeneratedTables) = 2
    /\ Get(GeneratedTables[1], "name") = "u"
    /\ Get(GeneratedTables[2], "name") = "t"
    /\ ColumnNamesOf(GeneratedTables[1]) = <<"c1", "c3">>
    /\ ColumnNamesOf(GeneratedTables[2]) = <<"c2", "c4">>

\* C19: when refresh_source(rows, name) has generated, the file
\* sources_<name>.yml holds the document of (rows, name) and nothing else,
\* whatever it held before and whatever was generated earlier; generating
\* again from the same rows under the same name leaves every file as it was;
\* and the files of the other source names are as they were before the call.
C19_GenerationOverwrites ==
    [][ Generated' =>
          /\ files'[SourcesFilename(call'.source_name)]
                = File(SourcesDocument(call'.source_info, call'.source_name))
          /\ (Generated /\ call' = call) => files' = files
          /\ \A filename \in FileNames \ {SourcesFilename(call'.source_name)} :
                files'[filename] = files[filename] ]_vars

\* A file was generated for one source name while the other source name has
\* the file of an earlier generation from other rows, which is still the
\* document of those rows.
C19_Witness ==
    /\ Generated
    /\ \E other \in SourceNames \ {call.source_name} :
          /\ files[SourcesFilename(other)].exists
          /\ HasKey(sources, other)
          /\ Get(sources, other) # call.source_info
          /\ files[SourcesFilename(other)]
                = File(SourcesDocument(Get(sources, other), other))
          /\ files[SourcesFilename(other)].doc # <<>>

-----------------------------------------------------------------------------
(* Properties of run_subprocess (SpecProc).                                *)

Spawned == call.fn = "run_subprocess"

\* The steps the child has taken so far, and the lines it has written to its stdout.
StepsTaken == SubSeq(call.child, 1, Len(call.child) - Len(process.todo))
LinesProduced == OnFd(StepsTaken, "stdout")

\* Everything the child writes in its life: its stdout lines, its stderr text.
AllLines == OnFd(call.child, "stdout")
AllStderr ==
    ReadAll([n \in 1..Len(OnFd(call.child, "stderr")) |-> OnFd(call.child, "stderr")[n].text])

LinesLogged == LogsAt(events, {"INFO"})
StderrLogged == LogsAt(events, {"ERROR", "CRITICAL"})

\* C20: run_subprocess, called as the wrapper command calls it (with
\* log_subcommand_errors left at its default), logs the child's stdout lines
\* one entry per line, in the order written, no line before the child wrote
\* it and all of them by the time it returns; an ERROR entry is logged at
\* most once, and when it is, the child has exited, every stdout line has
\* been logged before it, and its message is all the text the child wrote to
\* stderr; a child that wrote to stderr gets that entry by the time the call
\* ends, a child that wrote nothing to stderr gets none.
C20_StdoutStreamedStderrOnceAfterExit ==
    (Spawned /\ call.log_subcommand_errors) =>
        /\ Len(LinesLogged) + Len(process.stdout) = Len(LinesProduced)
        /\ \A n \in 1..Len(LinesLogged) :
              LinesLogged[n].message = Strip(LinesProduced[n].text)
        /\ pc = "done" => Len(LinesLogged) = Len(AllLines)
        /\ Len(StderrLogged) <= 1
        /\ StderrLogged # <<>> =>
              /\ process.status = "exited"
              /\ Len(LinesLogged) = Len(AllLines)
              /\ events[Len(events)] = StderrLogged[1]
              /\ StderrLogged[1].level = "ERROR"
              /\ StderrLogged[1].message = AllStderr
        /\ pc = "done" => (Len(StderrLogged) = 1 <=> AllStderr # "")
        /\ AllStderr = "" => StderrLogged = <<>>

\* A child wrote to stderr first and two lines to stdout afterwards; the call
\* has ended with the two lines logged in order and the stderr text logged
\* behind them.
C20_Witness ==
    /\ Spawned
    /\ call.log_subcommand_errors
    /\ pc = "done"
    /\ Len(call.child) = 3
    /\ call.child[1].fd = "stderr"
    /\ Len(LinesLogged) = 2
    /\ LinesLogged[1].message # LinesLogged[2].message
    /\ Len(events) = 4
    /\ events[4].level = "ERROR"
    /\ outcome.kind = "raise"

\* What a finished call must have logged and how it must have ended, told
\* from the child's stdout lines and stderr text alone.
EntriesFor(lines, text, log_subcommand_errors) ==
    [n \in 1..Len(lines) |-> LogEntry(Strip(lines[n].text), "INFO")]
    \o (IF log_subcommand_errors /\ text # "" THEN <<LogEntry(text, "ERROR")>> ELSE <<>>)

ResultFor(text, log_subcommand_errors) ==
    IF log_subcommand_errors /\ text # "" THEN Raise(text) ELSE Return("None")

-----------------------------------------------------------------------------
(* Properties of the dbt manager (SpecDbt).                                *)

GotDbtManager == call.fn = "get_dbt_manager" /\ outcome.kind = "return"

\* The profile of the project in profiles.yml.
ProjectProfile == Get(disk.profiles_yml, "proj")

\* C22: a dbt manager created with a target profile name has that entry of
\* the profile's outputs as its target_profile; created without one, it has
\* the entry named by the `target` of profiles.yml.
C22_ExplicitTargetSelected ==
    GotDbtManager =>
        Let(IF call.target_profile # "None" THEN call.target_profile
            ELSE GetOr(ProjectProfile, "target", "None"),
            LAMBDA name :
                /\ dbt.target_name = name
                /\ dbt.target_found = HasKey(Get(ProjectProfile, "outputs"), name)
                /\ dbt.target_found =>
                      target_profile = Get(Get(ProjectProfile, "outputs"), name))

-----------------------------------------------------------------------------
(* More properties of standardize_connection_details (SpecNorm).           *)

\* The positions of the input whose key is the canonical key c or one of its aliases.
PositionsFor(c) ==
    { i \in 1..Len(connection_details) : c \in CanonicalFor(connection_details[i].k) }

Last(S) == CHOOSE i \in S : \A j \in S : j <= i

\* C23: when two or more different keys of the input are the canonical key c
\* or aliases of c, in any mix, the normalized mapping holds under c the value
\* of the one that comes last in the input's iteration order.
C23_LastProcessedWins ==
    (Standardized /\ outcome.kind = "return") =>
        \A c \in CanonicalKeys :
            Cardinality(PositionsFor(c)) >= 2 =>
                /\ HasKey(outcome.value, c)
                /\ Get(outcome.value, c) = connection_details[Last(PositionsFor(c))].v

\* An accepted mapping gave the canonical key "user" one value and, behind
\* it, an alias of "user" another: the result holds the alias's value.
C23_Witness ==
    /\ Standardized
    /\ outcome.kind = "return"
    /\ \E i, j \in PositionsFor("user") :
          /\ i < j
          /\ j = Last(PositionsFor("user"))
          /\ connection_details[i].k = "user"
          /\ connection_details[j].k = "username"
          /\ connection_details[i].v # connection_details[j].v
          /\ Get(outcome.value, "user") = connection_details[j].v

-----------------------------------------------------------------------------
(* Properties of build_connection_string (SpecConn).                       *)

Built == call.fn = "build_connection_string"

\* The dict of the specification's example, with or without its database.
ExampleDetails(with_database) ==
    /\ HasKey(connection_details, "user") /\ Get(connection_details, "user") = PyStr("u")
    /\ HasKey(connection_details, "pass") /\ Get(connection_details, "pass") = PyStr("p")
    /\ HasKey(connection_details, "host") /\ Get(connection_details, "host") = PyStr("h")
    /\ HasKey(connection_details, "port") /\ Get(connection_details, "port") = PyInt(5000)
    /\ HasKey(connection_details, "database") = with_database
    /\ with_database => Get(connection_details, "database") = PyStr("d")

\* The text after the last "/" of a connection string.
RECURSIVE TrailingSegment(_)
TrailingSegment(text) ==
    IF Len(text) = 0 \/ CharAt(text, Len(text)) = "/" THEN ""
    ELSE TrailingSegment(SubSeq(text, 1, Len(text) - 1)) \o CharAt(text, Len(text))

\* C24: for details with user, pass, host and port the builder returns
\* "mysql://<user>:<pass>@<host>:<port>/<database>", so "mysql://u:p@h:5000/d"
\* for the example, and without a database key it returns the same string
\* ending in the text "None" and raises nothing.
C24_ConnectionString ==
    (Built /\ \A i \in 1..Len(SubscriptedKeys) : HasKey(connection_details, SubscriptedKeys[i])) =>
        /\ outcome.kind = "return"
        /\ outcome.value =
              "mysql://" \o Format(Get(connection_details, "user"))
              \o ":" \o Format(Get(connection_details, "pass"))
              \o "@" \o Format(Get(connection_details, "host"))
              \o ":" \o Format(Get(connection_details, "port"))
              \o "/" \o TrailingSegment(outcome.value)
        /\ TrailingSegment(outcome.value) =
              IF HasKey(connection_details, "database")
              THEN Format(Get(connection_details, "database")) ELSE "None"
        /\ ExampleDetails(TRUE) => outcome.value = "mysql://u:p@h:5000/d"
        /\ ExampleDetails(FALSE) => outcome.value = "mysql://u:p@h:5000/None"

\* The example without its database: the string ends in None.
C24_Witness ==
    /\ Built
    /\ ExampleDetails(FALSE)
    /\ outcome = Return("mysql://u:p@h:5000/None")

-----------------------------------------------------------------------------
(* Properties of a ConnectionManager without hooks (Spec).                 *)

\* The manager holds no hook statement.
WithoutHooks == pre_run_hooks = "" /\ post_run_hooks = ""

OpenSessions == { sid \in 1..Len(sessions) : sessions[sid] = "open" }

\* C25: on a manager without hooks, after any sequence of
\* start_new_session, get_current_session, execute_query,
\* batch_execute_queries, close_current_session, __enter__ and __exit__, at
\* most one session is open, and every session created that is not
\* current_session is closed: starting a new session leaks none.
C25_AtMostOneSessionOpen ==
    WithoutHooks =>
        /\ Cardinality(OpenSessions) <= 1
        /\ \A sid \in 1..Len(sessions) : sid # current_session => sessions[sid] = "closed"
        /\ current_session # 0 => current_session \in OpenSessions

\* start_new_session found a session open, closed it and created the next.
C25_Witness ==
    /\ WithoutHooks
    /\ call.fn = "start_new_session"
    /\ sessions = <<"closed", "open">>
    /\ current_session = 2
    /\ \E i, j \in 1..Len(events) :
          i < j /\ events[i] = CloseEv(1) /\ events[j] = CreateEv(2)

\* The history of a session: the statements execute_query appended to
\* session_query_history while the session was the current one.
SessionHistory(sid) == QueriesOf(SelectSeq(executed, LAMBDA e : e.sid = sid /\ e.ok))

\* The histories of the closed sessions among the first n, one after another.
RECURSIVE ClosedHistories(_)
ClosedHistories(n) ==
    IF n = 0 THEN <<>>
    ELSE ClosedHistories(n - 1) \o (IF IsClosed(n) THEN SessionHistory(n) ELSE <<>>)

\* C26: on a manager without hooks, all_query_history is the concatenation,
\* in order, of the histories of the sessions closed so far, each flushed
\* once: execute_query never changes all_query_history, and
\* close_current_session or __exit__ with no session open adds nothing.
C26_AllHistoryIsTheClosedHistories ==
    /\ [](WithoutHooks => all_query_history = ClosedHistories(Len(sessions)))
    /\ [][(WithoutHooks /\ call'.fn = "execute_query")
            => all_query_history' = all_query_history]_vars
    /\ [][(WithoutHooks /\ call'.fn \in {"close_current_session", "__exit__"}
                        /\ current_session = 0)
            => all_query_history' = all_query_history]_vars

\* __exit__ after a batch closed the session: two sessions flushed, the
\* history of the last one still in session_query_history, nothing added.
C26_Witness ==
    /\ WithoutHooks
    /\ call.fn = "__exit__"
    /\ events = <<LogEntry(Msg("Closing session and exiting connection manager.", ""), "INFO")>>
    /\ sessions = <<"closed", "closed">>
    /\ SessionHistory(1) # <<>>
    /\ session_query_history = SessionHistory(2)
    /\ session_query_history # <<>>
    /\ all_query_history = SessionHistory(1) \o SessionHistory(2)

-----------------------------------------------------------------------------
(* Termination of run_subprocess (SpecProcLive).                           *)

\* C27: for every child that writes a finite output to stdout and stderr, in
\* any interleaving and of any size relative to the pipe buffer, and then
\* exits, run_subprocess returns or raises in the end: the parent, which
\* reads stdout to its end before it reads stderr, is never left waiting for
\* a child that waits on a full stderr pipe.
C27_RunSubprocessTerminates == (pc = "for") ~> (pc = "done")

-----------------------------------------------------------------------------
(* Properties of set_run_hooks (SpecHooks).                                *)

\* A hook statement ended by one semicolon: its own, or one added to it.
Terminated(hook) == IF EndsWithSemicolon(Strip(hook)) THEN hook ELSE hook \o ";"

\* Every statement of the list, once and in order, each ended by a semicolon.
EveryStatement(hooks) == Join([n \in 1..Len(hooks) |-> Terminated(hooks[n])])

\* C28: set_run_hooks keeps every hook statement: each statement supplied
\* appears once, in order, ended by a single semicolon, also a statement
\* that already ends with one, and should_run_hooks is true exactly when at
\* least one hook statement was supplied.
C28_EveryHookStatementKept ==
    call.fn = "set_run_hooks" =>
        /\ pre_run_hooks = EveryStatement(call.pre_run_hooks)
        /\ post_run_hooks = EveryStatement(call.post_run_hooks)
        /\ should_run_hooks = (call.pre_run_hooks # <<>> \/ call.post_run_hooks # <<>>)

-----------------------------------------------------------------------------
(* The frame of parse_dbt_project_info (SpecDbt).                          *)

\* C29: parse_dbt_project_info does not modify the loaded project
\* descriptor: the path lists of the cached project data are what they were,
\* so a parse after the constructor's own succeeds and yields the same
\* directories.
C29_ParseLeavesDescriptorAlone ==
    [][call'.fn = "parse_dbt_project_info" =>
          /\ metadata_manager'.project_yml_data = metadata_manager.project_yml_data
          /\ outcome'.kind = "return"
          /\ dbt'.dirs = dbt.dirs]_vars

-----------------------------------------------------------------------------
(* Properties of generate_sources.py (SpecScript).                         *)

\* C30: in the metadata-generation command the source name given to
\* refresh_source is the database the metadata query filtered on, both when
\* --database is supplied and when it is omitted.
C30_SourceNameIsTheQueriedDatabase ==
    call.fn = "generate_sources" =>
        \A n \in 1..Len(executed) :
            executed[n].query = MetadataQueryText(call.source_name)

====
